---- MODULE Spec2Model ----
(***************************************************************************)
(* The data layer of the analytics dashboard: the time-boxed DataCache,    *)
(* fetchWithRetry, handleApiError and the fetchers built on them.          *)
(*                                                                         *)
(* Time is Date.now() in milliseconds.  One fetcher call is in flight at a *)
(* time; every await of the code is a step boundary.  Strings the code     *)
(* only concatenates are TLA+ strings; strings the code parses are         *)
(* sequences of one-character strings; messages are sequences of parts.    *)
(***************************************************************************)
EXTENDS Integers, Sequences, FiniteSets, TLC

VARIABLES
    now,        \* Date.now()
    cache,      \* DataCache.cache: key -> CacheEntry, or undefined
    lastSet,    \* history: per key, the last set() since the last clear(), and its caller's token
    pc,         \* position of the fetcher call in flight
    req,        \* the fetcher call in flight, or the last one
    cached,     \* the value dataCache.get returned to that call
    i,          \* fetchWithRetry: loop index
    lastError,  \* fetchWithRetry: lastError
    timer,      \* delay of the pending setTimeout
    ret,        \* how fetchWithRetry ended: a response, or a thrown error
    ep,         \* fetchUserInfo: index of the endpoint being tried
    netLog,     \* history: the network calls of the call in flight
    settled,    \* how the fetcher call settled: a value, or a thrown error
    nCalls,     \* fetcher calls started so far
    faults,     \* failing network outcomes injected so far
    pureCall,   \* a call of a function of utils or of getDateRange
    pureResult, \* what that call returned
    filters,    \* fetchAnalyticsData: the filters it was called with
    slots,      \* fetchAnalyticsData: the twelve promises given to Promise.all
    issued,     \* history: the fetcher calls that went to the network
    report,     \* how fetchAnalyticsData settled
    state,      \* App: the React state of the component
    jobs,       \* App: the async calls of its handlers that have not returned
    calls,      \* history: the arguments of each call of fetchAnalyticsData
    count       \* history: sign-ins, refreshes and filter changes so far

fetchVars == <<now, cache, lastSet, pc, req, cached, i, lastError, timer, ret, ep,
               netLog, settled, nCalls, faults>>
pureVars == <<pureCall, pureResult>>
orchVars == <<filters, slots, issued, report>>
appVars == <<state, jobs, calls, count>>
\* What the fetcher layer on its own leaves alone.
otherVars == <<pureVars, orchVars, appVars>>
vars == <<fetchVars, pureVars, orchVars, appVars>>

(* ---------------------------------------------------------------- bounds *)
MaxCalls == 2
MaxFaults == 3

(* ------------------------------------------------------------ JS values *)
null == [t |-> "null"]
undefined == [t |-> "undefined"]
Arr(items) == [t |-> "array", items |-> items]
Num(n) == [t |-> "number", n |-> n]
\* A string the code only passes on or concatenates.
JStr(s) == [t |-> "string", s |-> s]
\* A string the code parses: its characters.
Chars(chars) == [t |-> "chars", chars |-> chars]

\* JavaScript truthiness of a value.
Truthy(v) ==
    /\ v # null
    /\ v # undefined
    /\ ~(v.t = "string" /\ v.s = "")
    /\ ~(v.t = "chars" /\ v.chars = <<>>)
    /\ ~(v.t = "number" /\ v.n = 0)
    /\ v.t # "NaN"

\* a || b
OrElse(a, b) == IF Truthy(a) THEN a ELSE b

Digits == <<"0", "1", "2", "3", "4", "5", "6", "7", "8", "9">>
IsDigit(c) == \E d \in 1..10 : Digits[d] = c
DigitVal(c) == (CHOOSE d \in 1..10 : Digits[d] = c) - 1
NaN == [t |-> "NaN"]

RECURSIVE ParseDigits(_, _)
ParseDigits(chars, acc) ==
    IF chars = <<>> \/ ~IsDigit(Head(chars)) THEN acc
    ELSE ParseDigits(Tail(chars), acc * 10 + DigitVal(Head(chars)))

\* parseInt(s, 10) of an unsigned string: the leading digits, NaN if none.
parseInt(chars) ==
    IF chars = <<>> \/ ~IsDigit(Head(chars)) THEN NaN
    ELSE Num(ParseDigits(chars, 0))

\* x * k in JavaScript arithmetic.
Times(x, k) == IF x.t = "number" THEN Num(x.n * k) ELSE NaN

(* ------------------------------------------------------------ DataCache *)
CACHE_DURATION == 5 * 60 * 1000

CacheEntry(data, timestamp) == [data |-> data, timestamp |-> timestamp]

\* Mutant of CacheFresh: an entry exactly CACHE_DURATION old is still served.
CacheFreshInclusive(entry, t) == t - entry.timestamp <= CACHE_DURATION

\* get(): line 16, the entry is served while younger than CACHE_DURATION.
CacheFresh(entry, t) == t - entry.timestamp < CACHE_DURATION

\* get(): the value returned.
CacheGetValue(c, key, t) ==
    IF c[key] # undefined /\ CacheFresh(c[key], t) THEN c[key].data ELSE null

\* get(): the map afterwards (an expired entry is deleted).
CacheGetMap(c, key, t) ==
    IF c[key] # undefined /\ ~CacheFresh(c[key], t)
    THEN [c EXCEPT ![key] = undefined]
    ELSE c

\* Mutant of CacheHit: an empty array counts as nothing cached.
CacheHitNonEmpty(value) ==
    Truthy(value) /\ ~(value.t = "array" /\ value.items = <<>>)

\* if (cached) return cached; the test every fetcher makes on get()'s value.
CacheHit(value) == Truthy(value)

\* set(): the map afterwards.
CacheSet(c, key, data, t) == [c EXCEPT ![key] = CacheEntry(data, t)]

\* clear(): the map afterwards.
CacheClear(c) == [k \in DOMAIN c |-> undefined]

(* ------------------------------------------------------------ transport *)
\* What fetch() can hand back.  The body of a failed response is given as
\* its text together with what JSON.parse makes of that text.
InvalidJson == [t |-> "invalid"]
Body(text, json) == [t |-> "body", text |-> text, json |-> json]
JsonObject(error, error_description, message) ==
    [t |-> "object", error |-> error, error_description |-> error_description,
     message |-> message]

BodyEmpty == Body("", InvalidJson)
BodyErrorObject ==
    Body("{error:{message:Quota exceeded}}",
         JsonObject([t |-> "object", message |-> JStr("Quota exceeded")],
                    undefined, undefined))
BodyErrorString ==
    Body("{error:invalid_grant,error_description:Token expired}",
         JsonObject(JStr("invalid_grant"), JStr("Token expired"), undefined))
BodyMessage ==
    Body("{message:Not found}", JsonObject(undefined, undefined, JStr("Not found")))
BodyOtherJson ==
    Body("{code:7}", JsonObject(undefined, undefined, undefined))
BodyHtml == Body("<html>Bad Gateway</html>", InvalidJson)

ErrorBodies ==
    {BodyEmpty, BodyErrorObject, BodyErrorString, BodyMessage, BodyOtherJson,
     BodyHtml}

Response(status, statusText, retryAfter, body) ==
    [t |-> "response", status |-> status, statusText |-> statusText,
     retryAfter |-> retryAfter, body |-> body]

\* Response.ok
Ok(response) == response.status >= 200 /\ response.status <= 299

\* The values of the Retry-After header of a 429: absent, or seconds.
RetryAfterValues == {null, Chars(<<"3">>)}
AuthStatuses == {401, 403}
OtherStatuses == {500}
StatusText(status) ==
    CASE status = 200 -> "OK"
      [] status = 401 -> "Unauthorized"
      [] status = 403 -> "Forbidden"
      [] status = 429 -> "Too Many Requests"
      [] OTHER -> "Internal Server Error"

\* A JavaScript Error; origin tells the objects apart.
Error(message, origin) == [t |-> "error", message |-> message, origin |-> origin]
TransportError(attempt) == Error(<<"Failed to fetch">>, attempt)

(* ------------------------------------------------------- fetchWithRetry *)
maxRetries == 3

\* Mutant of RateLimitDelay: the Retry-After header is not read.
RateLimitDelayNoHeader(response, idx) == Num((idx + 1) * 2000)

\* line 57: the wait after a 429 received by attempt index idx.
RateLimitDelay(response, idx) ==
    IF Truthy(response.retryAfter)
    THEN Times(parseInt(response.retryAfter.chars), 1000)
    ELSE Num((idx + 1) * 2000)

\* Mutant of TransportDelay: a fixed wait instead of a growing one.
TransportDelayFixed(idx) == Num(1000)

\* line 77: the wait after attempt index idx threw.
TransportDelay(idx) == Num((idx + 1) * 1000)

\* line 69
HttpError(response, idx) ==
    Error(<<"HTTP ", ToString(response.status), ": ", response.statusText>>, idx)

\* line 82
ThrownAfterLoop(err) ==
    IF err # null THEN err ELSE Error(<<"Failed to fetch after retries">>, maxRetries)

\* setTimeout(f, delay): the milliseconds waited (NaN and negatives are 0).
TimeoutMs(delay) == IF delay.t = "number" /\ delay.n > 0 THEN delay.n ELSE 0

Returned(response) == [t |-> "returned", response |-> response]
Thrown(err) == [t |-> "thrown", error |-> err]

(* ------------------------------------------------------- handleApiError *)
DefaultDetail(response) ==
    <<"Request failed with status ", ToString(response.status), " (",
      response.statusText, ").">>

\* lines 98-113: detailedMessage after the JSON branch.
DetailFromBody(response) ==
    LET text == response.body.text
        errorData == response.body.json
    IN  IF errorData = InvalidJson
        THEN DefaultDetail(response) \o <<" Raw response: ", text>>
        ELSE IF Truthy(errorData.error)
        THEN IF errorData.error.t = "string"
             THEN <<OrElse(errorData.error_description, errorData.error).s>>
             ELSE IF Truthy(errorData.error.message)
             THEN <<errorData.error.message.s>>
             ELSE DefaultDetail(response)
        ELSE IF Truthy(errorData.message)
        THEN <<errorData.message.s>>
        ELSE DefaultDetail(response) \o <<" Full response: ", text>>

\* The Error handleApiError throws.
handleApiError(response, apiName) ==
    LET detailedMessage ==
            IF response.body.text = "" THEN DefaultDetail(response)
            ELSE DetailFromBody(response)
    IN  Error(<<apiName, " Error: ">> \o detailedMessage, "handleApiError")

(* ------------------------------------------------------ strings, arrays *)
\* The characters that occur, in UTF-16 code unit order.
Alphabet ==
    <<" ", "#", "&", "+", "-", ".", "/", "0", "1", "2", "3", "4", "5", "6", "7", "8", "9",
      ":", "=", "?", "A", "B", "C", "D", "E", "F", "G", "H", "I", "J", "K",
      "L", "M", "N", "O", "P", "Q", "R", "S", "T", "U", "V", "W", "X", "Y",
      "Z", "_", "a", "b", "c", "d", "e", "f", "g", "h", "i", "j", "k", "l",
      "m", "n", "o", "p", "q", "r", "s", "t", "u", "v", "w", "x", "y", "z">>
CodeUnit(c) == CHOOSE k \in 1..Len(Alphabet) : Alphabet[k] = c

\* a < b for two strings given as characters, by code units.
RECURSIVE CharsLess(_, _)
CharsLess(a, b) ==
    IF b = <<>> THEN FALSE
    ELSE IF a = <<>> THEN TRUE
    ELSE IF Head(a) # Head(b) THEN CodeUnit(Head(a)) < CodeUnit(Head(b))
    ELSE CharsLess(Tail(a), Tail(b))

\* Array.prototype.sort with a comparator that is negative exactly when
\* Less(a, b): the sort is stable, equal items keep their order.
SortArray(items, Less(_, _)) ==
    LET n == Len(items)
        Before(a, b) ==
            \/ Less(items[a], items[b])
            \/ ~Less(items[b], items[a]) /\ a < b
        Place(a) == 1 + Cardinality({b \in 1..n : b # a /\ Before(b, a)})
    IN  [k \in 1..n |-> items[CHOOSE a \in 1..n : Place(a) = k]]

\* Array.prototype.join over strings.
RECURSIVE Join(_, _)
Join(parts, sep) ==
    IF parts = <<>> THEN ""
    ELSE IF Len(parts) = 1 THEN parts[1]
    ELSE parts[1] \o sep \o Join(Tail(parts), sep)

RECURSIVE Concat(_)
Concat(seqs) == IF seqs = <<>> THEN <<>> ELSE Head(seqs) \o Concat(Tail(seqs))

MapSeq(items, F(_)) == [k \in 1..Len(items) |-> F(items[k])]

AllDigits(chars) == \A k \in 1..Len(chars) : IsDigit(chars[k])

(* ------------------------------------------------- extractAuthorFromUrl *)
Upper == <<"A", "B", "C", "D", "E", "F", "G", "H", "I", "J", "K", "L", "M",
           "N", "O", "P", "Q", "R", "S", "T", "U", "V", "W", "X", "Y", "Z">>
Lower == <<"a", "b", "c", "d", "e", "f", "g", "h", "i", "j", "k", "l", "m",
           "n", "o", "p", "q", "r", "s", "t", "u", "v", "w", "x", "y", "z">>
ToLowerChar(c) ==
    IF \E k \in 1..26 : Upper[k] = c THEN Lower[CHOOSE k \in 1..26 : Upper[k] = c] ELSE c
ToUpperChar(c) ==
    IF \E k \in 1..26 : Lower[k] = c THEN Upper[CHOOSE k \in 1..26 : Lower[k] = c] ELSE c
ToLowerCase(chars) == [k \in 1..Len(chars) |-> ToLowerChar(chars[k])]

StartsWith(chars, prefix) ==
    Len(chars) >= Len(prefix) /\ SubSeq(chars, 1, Len(prefix)) = prefix
EndsWith(chars, suffix) ==
    Len(chars) >= Len(suffix)
        /\ SubSeq(chars, Len(chars) - Len(suffix) + 1, Len(chars)) = suffix

\* The first index of chars holding a character of set, 0 if none.
FirstOf(chars, set) ==
    LET hits == {k \in 1..Len(chars) : chars[k] \in set}
    IN  IF hits = {} THEN 0 ELSE CHOOSE k \in hits : \A o \in hits : k <= o

\* String.prototype.split(sep) for a one-character separator.
RECURSIVE Split(_, _)
Split(chars, sep) ==
    LET k == FirstOf(chars, {sep})
    IN  IF k = 0 THEN <<chars>>
        ELSE <<SubSeq(chars, 1, k - 1)>> \o Split(SubSeq(chars, k + 1, Len(chars)), sep)

\* filter(Boolean) over strings: the empty ones go.
RECURSIVE NonEmpty(_)
NonEmpty(parts) ==
    IF parts = <<>> THEN <<>>
    ELSE IF Head(parts) = <<>> THEN NonEmpty(Tail(parts))
    ELSE <<Head(parts)>> \o NonEmpty(Tail(parts))

\* new URL(u) for u = scheme://authority/path?search#fragment with scheme
\* http or https; anything else throws.
HttpPrefix == <<"h", "t", "t", "p", ":", "/", "/">>
HttpsPrefix == <<"h", "t", "t", "p", "s", ":", "/", "/">>
UrlParse(chars) ==
    LET afterScheme ==
            IF StartsWith(chars, HttpsPrefix) THEN SubSeq(chars, 9, Len(chars))
            ELSE IF StartsWith(chars, HttpPrefix) THEN SubSeq(chars, 8, Len(chars))
            ELSE <<>>
        hostEnd == FirstOf(afterScheme, {"/", "?", "#"})
        host == IF hostEnd = 0 THEN afterScheme ELSE SubSeq(afterScheme, 1, hostEnd - 1)
        rest == IF hostEnd = 0 THEN <<>> ELSE SubSeq(afterScheme, hostEnd, Len(afterScheme))
        hashAt == FirstOf(rest, {"#"})
        noHash == IF hashAt = 0 THEN rest ELSE SubSeq(rest, 1, hashAt - 1)
        queryAt == FirstOf(noHash, {"?"})
        path == IF queryAt = 0 THEN noHash ELSE SubSeq(noHash, 1, queryAt - 1)
        search == IF queryAt = 0 THEN <<>> ELSE SubSeq(noHash, queryAt + 1, Len(noHash))
    IN  IF host = <<>> THEN [ok |-> FALSE, pathname |-> <<>>, search |-> <<>>]
        ELSE [ok |-> TRUE, pathname |-> IF path = <<>> THEN <<"/">> ELSE path,
              search |-> search]

\* URLSearchParams.get(name): the value of the first pair of that name,
\* with + read as a space; null when there is none.
PlusToSpace(chars) == [k \in 1..Len(chars) |-> IF chars[k] = "+" THEN " " ELSE chars[k]]
PairName(pair) ==
    LET eq == FirstOf(pair, {"="})
    IN  PlusToSpace(IF eq = 0 THEN pair ELSE SubSeq(pair, 1, eq - 1))
PairValue(pair) ==
    LET eq == FirstOf(pair, {"="})
    IN  PlusToSpace(IF eq = 0 THEN <<>> ELSE SubSeq(pair, eq + 1, Len(pair)))
SearchParamsGet(search, name) ==
    LET pairs == NonEmpty(Split(search, "&"))
        hits == {k \in 1..Len(pairs) : PairName(pairs[k]) = name}
    IN  IF hits = {} THEN null
        ELSE Chars(PairValue(pairs[CHOOSE k \in hits : \A o \in hits : k <= o]))

UnknownAuthor == <<"U", "n", "k", "n", "o", "w", "n", " ", "A", "u", "t", "h", "o", "r">>

\* String.prototype.trim
RECURSIVE TrimLeft(_)
TrimLeft(chars) ==
    IF chars # <<>> /\ Head(chars) = " " THEN TrimLeft(Tail(chars)) ELSE chars
RECURSIVE TrimRight(_)
TrimRight(chars) ==
    IF chars # <<>> /\ chars[Len(chars)] = " "
    THEN TrimRight(SubSeq(chars, 1, Len(chars) - 1)) ELSE chars
Trim(chars) == TrimRight(TrimLeft(chars))

\* replace(/\.(html?|php|aspx?)$/i, '')
StripSuffix(chars) ==
    LET low == ToLowerCase(chars)
        cut == IF EndsWith(low, <<".", "h", "t", "m", "l">>) THEN 5
               ELSE IF EndsWith(low, <<".", "h", "t", "m">>) THEN 4
               ELSE IF EndsWith(low, <<".", "p", "h", "p">>) THEN 4
               ELSE IF EndsWith(low, <<".", "a", "s", "p", "x">>) THEN 5
               ELSE IF EndsWith(low, <<".", "a", "s", "p">>) THEN 4
               ELSE 0
    IN  SubSeq(chars, 1, Len(chars) - cut)

\* word.charAt(0).toUpperCase() + word.slice(1).toLowerCase()
Capitalize(word) ==
    [k \in 1..Len(word) |-> IF k = 1 THEN ToUpperChar(word[k]) ELSE ToLowerChar(word[k])]

RECURSIVE JoinChars(_, _)
JoinChars(parts, sep) ==
    IF parts = <<>> THEN <<>>
    ELSE IF Len(parts) = 1 THEN parts[1]
    ELSE parts[1] \o <<sep>> \o JoinChars(Tail(parts), sep)

\* A formatting that rejects nothing.
formatAuthorNameUnchecked(segment) ==
    LET stripped == StripSuffix(segment)
        spaced == [k \in 1..Len(stripped) |->
                      IF stripped[k] \in {"_", "-"} THEN " " ELSE stripped[k]]
    IN  JoinChars(MapSeq(Split(Trim(spaced), " "), Capitalize), " ")

\* lines 181-200
formatAuthorName(segment) ==
    LET stripped == StripSuffix(segment)
        spaced == [k \in 1..Len(stripped) |->
                      IF stripped[k] \in {"_", "-"} THEN " " ELSE stripped[k]]
        name == JoinChars(MapSeq(Split(Trim(spaced), " "), Capitalize), " ")
    IN  IF Len(name) < 2 \/ (name # <<>> /\ AllDigits(name)) THEN UnknownAuthor
        ELSE name

\* A date test that knows years and months only.
isDateSegmentDigitsOnly(segment) ==
    \/ Len(segment) = 4 /\ AllDigits(segment)
    \/ Len(segment) = 2 /\ AllDigits(segment)

\* lines 205-210
isDateSegment(segment) ==
    \/ Len(segment) = 4 /\ AllDigits(segment)
    \/ Len(segment) = 2 /\ AllDigits(segment)
    \/ /\ Len(segment) \in {7, 10}
       /\ AllDigits(SubSeq(segment, 1, 4))
       /\ segment[5] = "-"
       /\ AllDigits(SubSeq(segment, 6, 7))
       /\ Len(segment) = 10 => segment[8] = "-" /\ AllDigits(SubSeq(segment, 9, 10))

\* lines 215-223
commonCategories ==
    {<<"c", "a", "t", "e", "g", "o", "r", "y">>,
     <<"c", "a", "t", "e", "g", "o", "r", "i", "e", "s">>,
     <<"t", "a", "g">>,
     <<"t", "a", "g", "s">>,
     <<"t", "o", "p", "i", "c">>,
     <<"t", "o", "p", "i", "c", "s">>,
     <<"s", "e", "c", "t", "i", "o", "n">>,
     <<"s", "e", "c", "t", "i", "o", "n", "s">>,
     <<"n", "e", "w", "s">>,
     <<"b", "l", "o", "g">>,
     <<"a", "r", "t", "i", "c", "l", "e", "s">>,
     <<"p", "o", "s", "t", "s">>,
     <<"t", "e", "c", "h">>,
     <<"b", "u", "s", "i", "n", "e", "s", "s">>,
     <<"h", "e", "a", "l", "t", "h">>,
     <<"s", "p", "o", "r", "t", "s">>,
     <<"e", "n", "t", "e", "r", "t", "a", "i", "n", "m", "e", "n", "t">>,
     <<"p", "o", "l", "i", "t", "i", "c", "s">>,
     <<"s", "c", "i", "e", "n", "c", "e">>,
     <<"l", "i", "f", "e", "s", "t", "y", "l", "e">>,
     <<"o", "p", "i", "n", "i", "o", "n">>,
     <<"r", "e", "v", "i", "e", "w", "s">>}
isCategorySegment(segment) == ToLowerCase(segment) \in commonCategories

\* lines 119-134: the markers whose next segment is the author.
NextSegmentMarkers ==
    {<<"a", "u", "t", "h", "o", "r">>,
     <<"a", "u", "t", "h", "o", "r", "s">>,
     <<"b", "y">>,
     <<"c", "o", "n", "t", "r", "i", "b", "u", "t", "o", "r">>,
     <<"c", "o", "n", "t", "r", "i", "b", "u", "t", "o", "r", "s">>,
     <<"w", "r", "i", "t", "e", "r">>,
     <<"w", "r", "i", "t", "e", "r", "s">>,
     <<"t", "e", "a", "m">>}

\* lines 140-155: what segment idx (from 1) of segments makes the loop
\* return, null if it goes on.
SegmentMatch(segments, idx) ==
    LET segment == ToLowerCase(segments[idx])
        n == Len(segments)
    IN  IF segment \in NextSegmentMarkers /\ idx + 1 <= n
        THEN Chars(formatAuthorName(segments[idx + 1]))
        ELSE IF /\ segment = <<"b", "l", "o", "g">>
                /\ idx + 1 <= n
                /\ ~isDateSegment(segments[idx + 1])
                /\ ~isCategorySegment(segments[idx + 1])
        THEN Chars(formatAuthorName(segments[idx + 1]))
        ELSE IF /\ segment = <<"p", "o", "s", "t", "s">>
                /\ idx + 2 <= n
                /\ segments[idx + 1] = <<"a", "u", "t", "h", "o", "r">>
        THEN Chars(formatAuthorName(segments[idx + 2]))
        ELSE null

\* lines 159-168: the author named by the query string, null if none;
\* thrown is set when new URL throws.
AuthorParam(urlObj) ==
    IF ~urlObj.ok THEN [thrown |-> TRUE, value |-> null]
    ELSE [thrown |-> FALSE,
          value |->
            OrElse(OrElse(SearchParamsGet(urlObj.search, <<"a", "u", "t", "h", "o", "r">>),
                          SearchParamsGet(urlObj.search, <<"w", "r", "i", "t", "e", "r">>)),
                   SearchParamsGet(urlObj.search, <<"b", "y">>))]
QueryAuthor(url) ==
    AuthorParam(UrlParse(
        IF StartsWith(url, <<"h", "t", "t", "p">>) THEN url
        ELSE HttpsPrefix \o <<"e", "x", "a", "m", "p", "l", "e", ".", "c", "o", "m">> \o url))

\* lines 159-175: no segment matched; the query string, else Unknown.
AuthorFromQuery(url, query) ==
    IF FirstOf(url, {"?"}) # 0 /\ ~query.thrown /\ Truthy(query.value)
    THEN formatAuthorName(query.value.chars)
    ELSE UnknownAuthor

\* lines 137-157: the loop over the segments; hits are the indices at
\* which it would return.
AuthorFromSegments(url, segments, hits) ==
    IF hits # {}
    THEN SegmentMatch(segments, CHOOSE k \in hits : \A o \in hits : k <= o).chars
    ELSE AuthorFromQuery(url, QueryAuthor(url))

\* lines 116-157
AuthorFromPath(url, segments) ==
    AuthorFromSegments(url, segments,
                       {k \in 1..Len(segments) : SegmentMatch(segments, k) # null})

\* lines 108-116: parsed is new URL(url), used when url is a full URL.
AuthorFromUrl(url, isFull, parsed) ==
    IF isFull /\ ~parsed.ok THEN UnknownAuthor
    ELSE AuthorFromPath(url, NonEmpty(Split(IF isFull THEN parsed.pathname ELSE url, "/")))

\* lines 105-176
extractAuthorFromUrl(url) ==
    AuthorFromUrl(url, StartsWith(url, HttpPrefix) \/ StartsWith(url, HttpsPrefix),
                  UrlParse(url))

(* ---------------------------------------------------------------- dates *)
\* The calendar of the Date object (ECMAScript DayFromYear, MakeDay), days
\* counted from 1970-01-01, months from 0.
IsLeapYear(y) == (y % 4 = 0 /\ y % 100 # 0) \/ y % 400 = 0
LeapsBefore(y) == ((y - 1) \div 4) - ((y - 1) \div 100) + ((y - 1) \div 400)
DayFromYear(y) == 365 * (y - 1970) + LeapsBefore(y) - LeapsBefore(1970)
DaysBeforeMonth == <<0, 31, 59, 90, 120, 151, 181, 212, 243, 273, 304, 334>>
DayFromMonth(y, m) ==
    DayFromYear(y) + DaysBeforeMonth[m + 1] + (IF IsLeapYear(y) /\ m >= 2 THEN 1 ELSE 0)
\* MakeDay: month and day may lie outside their ranges and carry over.
MakeDay(y, m, d) == DayFromMonth(y + (m \div 12), m % 12) + d - 1
YearFromDay(day) ==
    CHOOSE y \in (1970 + (day \div 366))..(1970 + (day \div 365)) :
        DayFromYear(y) <= day /\ day < DayFromYear(y + 1)
MonthFromDay(day) ==
    CHOOSE m \in 0..11 :
        MakeDay(YearFromDay(day), m, 1) <= day /\ day < MakeDay(YearFromDay(day), m + 1, 1)
DateFromDay(day) == day - MakeDay(YearFromDay(day), MonthFromDay(day), 1) + 1

\* A Date in a time zone tz hours ahead of UTC (no daylight saving): the
\* local day and the local hour of the day.
Date(localDay, hour, tz) == [t |-> "date", localDay |-> localDay, hour |-> hour, tz |-> tz]
\* new Date() at the instant utcHour hours into UTC day utcDay.
NewDate(utcDay, utcHour, tz) ==
    Date((utcDay * 24 + utcHour + tz) \div 24, (utcDay * 24 + utcHour + tz) % 24, tz)
getDate(date) == DateFromDay(date.localDay)
getMonth(date) == MonthFromDay(date.localDay)
setDate(date, d) ==
    [date EXCEPT !.localDay = MakeDay(YearFromDay(date.localDay), MonthFromDay(date.localDay), d)]
setMonth(date, m) ==
    [date EXCEPT !.localDay = MakeDay(YearFromDay(date.localDay), m, DateFromDay(date.localDay))]

\* The decimal digits of n >= 0, at least width of them.
RECURSIVE PadDigits(_, _)
PadDigits(n, width) ==
    IF n < 10 /\ width <= 1 THEN <<Digits[n + 1]>>
    ELSE PadDigits(n \div 10, width - 1) \o <<Digits[(n % 10) + 1]>>

\* The YYYY-MM-DD of a day of the calendar.
IsoDate(day) ==
    PadDigits(YearFromDay(day), 4) \o <<"-">> \o PadDigits(MonthFromDay(day) + 1, 2)
        \o <<"-">> \o PadDigits(DateFromDay(day), 2)

\* line 161: date.toISOString().split('T')[0], the date in UTC.
toApiDateString(date) == IsoDate((date.localDay * 24 + date.hour - date.tz) \div 24)

\* lines 135-153: daysDiff and startDate for the selector.
daysDiff(dateRange) ==
    CASE dateRange = "last-30d" -> 30
      [] dateRange = "last-3m" -> 90
      [] dateRange = "last-6m" -> 180
      [] OTHER -> 28
StartDateOf(dateRange, endDate) ==
    CASE dateRange = "last-30d" -> setDate(endDate, getDate(endDate) - 29)
      [] dateRange = "last-3m" -> setMonth(endDate, getMonth(endDate) - 3)
      [] dateRange = "last-6m" -> setMonth(endDate, getMonth(endDate) - 6)
      [] OTHER -> setDate(endDate, getDate(endDate) - 27)

\* lines 163-168
DateRangeResult(startDate, endDate, previousStartDate, previousEndDate) ==
    [startDate |-> toApiDateString(startDate),
     endDate |-> toApiDateString(endDate),
     previousStartDate |-> toApiDateString(previousStartDate),
     previousEndDate |-> toApiDateString(previousEndDate)]
\* lines 157-158
DateRangeBefore(dateRange, startDate, endDate, previousEndDate) ==
    DateRangeResult(startDate, endDate,
                    setDate(previousEndDate,
                            getDate(previousEndDate) - (daysDiff(dateRange) - 1)),
                    previousEndDate)
\* A previous window that ends on the day the current one starts.
DateRangeBetweenOverlapping(dateRange, startDate, endDate) ==
    DateRangeBefore(dateRange, startDate, endDate, startDate)
\* lines 155-156
DateRangeBetween(dateRange, startDate, endDate) ==
    DateRangeBefore(dateRange, startDate, endDate, setDate(startDate, getDate(startDate) - 1))
\* lines 131-153
DateRangeUntil(dateRange, endDate) ==
    DateRangeBetween(dateRange, StartDateOf(dateRange, endDate), endDate)
\* lines 123-170: getDateRange called when new Date() is today.
getDateRange(dateRange, today) ==
    DateRangeUntil(dateRange, setDate(today, getDate(today) - 1))

(* --------------------------------------------------------------- growth *)
\* U+2014, the em dash, as one character of a string.
EmDash == "emdash"

\* The decimal digits of n >= 0.
NumberChars(n) == PadDigits(n, 1)

\* x.toFixed(1) for x = num / den with den > 0: the sign, then the
\* magnitude rounded to tenths, a tie going up.
ToFixed1(num, den) ==
    LET tenths == ((IF num < 0 THEN -num ELSE num) * 20 + den) \div (2 * den)
    IN  (IF num < 0 THEN <<"-">> ELSE <<>>)
            \o NumberChars(tenths \div 10) \o <<".">> \o NumberChars(tenths % 10)

\* utils, lines 77-80: formatPercentage(num, 1) for num = num / den.
formatPercentage1(num, den) ==
    IF den < 0 THEN ToFixed1(-num * 100, -den) \o <<"%">>
    ELSE ToFixed1(num * 100, den) \o <<"%">>

\* A growth that is never prefixed.
calculateGrowthUnsigned(current, previous) ==
    IF previous = 0
    THEN IF current = 0 THEN <<"0", "%">>
         ELSE IF current > 0 THEN <<"+", "1", "0", "0", "%">>
         ELSE <<EmDash>>
    ELSE formatPercentage1(current - previous, previous)

\* utils, lines 87-95
calculateGrowth(current, previous) ==
    IF previous = 0
    THEN IF current = 0 THEN <<"0", "%">>
         ELSE IF current > 0 THEN <<"+", "1", "0", "0", "%">>
         ELSE <<EmDash>>
    ELSE IF (current - previous) * previous >= 0
         THEN <<"+">> \o formatPercentage1(current - previous, previous)
         ELSE formatPercentage1(current - previous, previous)

\* A change type read off the first character alone.
getGrowthTypeBySign(change) ==
    IF StartsWith(change, <<"-">>) THEN "decrease" ELSE "increase"

\* utils, lines 97-100
getGrowthType(change) ==
    IF change \in {<<EmDash>>, <<"0", "%">>, <<"+", "0", ".", "0", "%">>,
                   <<"-", "0", ".", "0", "%">>}
    THEN "neutral"
    ELSE IF StartsWith(change, <<"-">>) THEN "decrease" ELSE "increase"

(* ------------------------------------------------------------- fetchers *)
\* An access token: its first ten characters and the rest.
AccessToken(head, tail) == [head |-> head, tail |-> tail]
\* accessToken.substring(0, 10)
Substring10(accessToken) == accessToken.head

\* What a fetcher does with a 2xx body: the value returned, and whether
\* it is stored under the cache key first.
Outcome(value, store) == [value |-> value, store |-> store]

\* A fetcher call: its cache key, the endpoints it asks, and the name it
\* hands to handleApiError.
Call(fn, cacheKey, urls, apiName, args) ==
    [fn |-> fn, cacheKey |-> cacheKey, urls |-> urls, apiName |-> apiName,
     args |-> args]

fetchUserInfo(accessToken) ==
    Call("fetchUserInfo", "userInfo_" \o Substring10(accessToken),
         <<"https://www.googleapis.com/oauth2/v3/userinfo",
           "https://www.googleapis.com/oauth2/v2/userinfo",
           "https://www.googleapis.com/oauth2/v1/userinfo">>,
         "", <<accessToken>>)

UserInfo(email, name, picture) ==
    [t |-> "object", email |-> email, name |-> name, picture |-> picture]

\* lines 196-201
UserInfoOnOk(data) ==
    Outcome(UserInfo(OrElse(data.email, JStr("user@analytics.app")),
                     OrElse(OrElse(data.name, data.given_name), JStr("Analytics User")),
                     OrElse(data.picture,
                            JStr("https://ui-avatars.com/api/?name=User&background=4285F4&color=fff"))),
            TRUE)

\* lines 214-218
fallbackUserInfo ==
    UserInfo(JStr("user@analytics.app"), JStr("Analytics User"),
             JStr("https://ui-avatars.com/api/?name=Analytics+User&background=4285F4&color=fff"))

fetchGa4Properties(accessToken) ==
    Call("fetchGa4Properties", "ga4Properties_" \o Substring10(accessToken),
         <<"https://analyticsadmin.googleapis.com/v1beta/accountSummaries">>,
         "GA4 Admin", <<accessToken>>)

\* displayName.localeCompare, on names of lower-case letters.
DisplayNameLess(a, b) == CharsLess(a.displayName.chars, b.displayName.chars)

\* lines 243-256
PropertySummariesOf(account) ==
    IF Truthy(account.propertySummaries) THEN account.propertySummaries.items
    ELSE <<>>

Ga4PropertiesOnOk(result) ==
    LET properties ==
            IF Truthy(result.accountSummaries)
            THEN Concat(MapSeq(result.accountSummaries.items, PropertySummariesOf))
            ELSE <<>>
    IN  Outcome(Arr(SortArray(properties, DisplayNameLess)), TRUE)

fetchGscSites(accessToken) ==
    Call("fetchGscSites", "gscSites_" \o Substring10(accessToken),
         <<"https://searchconsole.googleapis.com/v1/sites">>,
         "GSC Sites", <<accessToken>>)

SiteUrlOf(site) == site.siteUrl
SiteLess(a, b) == CharsLess(a.chars, b.chars)

\* lines 276-279
GscSitesOnOk(result) ==
    Outcome(IF Truthy(result.siteEntry)
            THEN Arr(SortArray(MapSeq(result.siteEntry.items, SiteUrlOf), SiteLess))
            ELSE Arr(<<>>),
            TRUE)

GSC_API_ENDPOINT == "https://searchconsole.googleapis.com/v1/searchanalytics/query"
Ga4RunReport(propertyId) ==
    "https://analyticsdata.googleapis.com/v1beta/" \o propertyId \o ":runReport"

fetchGscData(siteUrl, accessToken, startDate, endDate, dimensions, searchType, rowLimit) ==
    Call("fetchGscData",
         "gsc_" \o siteUrl \o "_" \o startDate \o "_" \o endDate \o "_"
             \o Join(dimensions, "_") \o "_" \o searchType \o "_" \o ToString(rowLimit),
         <<GSC_API_ENDPOINT>>,
         "GSC (" \o Join(dimensions, ", ") \o ")",
         <<siteUrl, accessToken, startDate, endDate, dimensions, searchType, rowLimit>>)

\* lines 327-333
GscDataRow(row) ==
    [t |-> "object", key |-> row.keys.items[1], clicks |-> row.clicks,
     impressions |-> row.impressions, ctr |-> row.ctr, position |-> row.position]

\* lines 321-336
GscDataOnOk(result) ==
    IF ~Truthy(result.rows) THEN Outcome(Arr(<<>>), FALSE)
    ELSE Outcome(Arr(MapSeq(result.rows.items, GscDataRow)), TRUE)

fetchGscTrends(siteUrl, accessToken, startDate, endDate, searchType) ==
    Call("fetchGscTrends",
         "gscTrends_" \o siteUrl \o "_" \o startDate \o "_" \o endDate \o "_" \o searchType,
         <<GSC_API_ENDPOINT>>, "GSC Trends",
         <<siteUrl, accessToken, startDate, endDate, searchType>>)

\* lines 381-385
GscTrendPoint(row) ==
    [t |-> "object", date |-> row.keys.items[1], clicks |-> row.clicks,
     impressions |-> row.impressions]

\* lines 375-388
GscTrendsOnOk(result) ==
    IF ~Truthy(result.rows) THEN Outcome(Arr(<<>>), FALSE)
    ELSE Outcome(Arr(MapSeq(result.rows.items, GscTrendPoint)), TRUE)

fetchGa4Trends(propertyId, accessToken, startDate, endDate) ==
    Call("fetchGa4Trends",
         "ga4Trends_" \o propertyId \o "_" \o startDate \o "_" \o endDate,
         <<Ga4RunReport(propertyId)>>, "GA4 Trends",
         <<propertyId, accessToken, startDate, endDate>>)

\* value.replace(/(\d{4})(\d{2})(\d{2})/, '$1-$2-$3'): the first run of
\* eight digits gets its dashes.
DashDate(chars) ==
    LET starts == {k \in 1..Len(chars) - 7 : AllDigits(SubSeq(chars, k, k + 7))}
    IN  IF starts = {} THEN chars
        ELSE LET k == CHOOSE m \in starts : \A o \in starts : m <= o
             IN  SubSeq(chars, 1, k + 3) \o <<"-">> \o SubSeq(chars, k + 4, k + 5)
                     \o <<"-">> \o SubSeq(chars, k + 6, Len(chars))

\* lines 430-433
Ga4TrendPoint(row) ==
    [t |-> "object", date |-> Chars(DashDate(row.dimensionValues.items[1].value.chars)),
     sessions |-> parseInt(row.metricValues.items[1].value.chars)]

\* lines 424-436
Ga4TrendsOnOk(result) ==
    IF ~Truthy(result.rows) THEN Outcome(Arr(<<>>), FALSE)
    ELSE Outcome(Arr(MapSeq(result.rows.items, Ga4TrendPoint)), TRUE)

fetchGa4Totals(propertyId, accessToken, startDate, endDate) ==
    Call("fetchGa4Totals",
         "ga4Totals_" \o propertyId \o "_" \o startDate \o "_" \o endDate,
         <<Ga4RunReport(propertyId)>>, "GA4 Totals",
         <<propertyId, accessToken, startDate, endDate>>)

\* x?.[k]: item k (from 0) of an array, undefined past its end or off x.
ItemAt(x, k) ==
    IF x = undefined \/ x = null THEN undefined
    ELSE IF k + 1 <= Len(x.items) THEN x.items[k + 1] ELSE undefined

\* x?.field for the fields read below.
MetricValuesOf(row) == IF row = undefined THEN undefined ELSE row.metricValues
ValueOf(cell) == IF cell = undefined THEN undefined ELSE cell.value

\* lines 470-478
Ga4TotalsOnOk(result) ==
    LET totalsRow == MetricValuesOf(ItemAt(result.rows, 0))
        sessions == parseInt(OrElse(ValueOf(ItemAt(totalsRow, 0)), Chars(<<"0">>)).chars)
        pageviews == parseInt(OrElse(ValueOf(ItemAt(totalsRow, 1)), Chars(<<"0">>)).chars)
    IN  Outcome([t |-> "object", sessions |-> sessions, pageviews |-> pageviews], TRUE)

fetchAuthorData(propertyId, accessToken, startDate, endDate, topN) ==
    Call("fetchAuthorData",
         "authorData_" \o propertyId \o "_" \o startDate \o "_" \o endDate \o "_"
             \o ToString(topN),
         <<Ga4RunReport(propertyId)>>, "",
         <<propertyId, accessToken, startDate, endDate, topN>>)

\* line 491: !propertyId || !accessToken
EmptyArguments(call) ==
    /\ call.fn = "fetchAuthorData"
    /\ call.args[1] = "" \/ call.args[2] = AccessToken("", "")

\* a + b in JavaScript arithmetic.
Plus(a, b) == IF a.t = "number" /\ b.t = "number" THEN Num(a.n + b.n) ELSE NaN
\* a / b, kept exact.
Quotient(a, b) == [t |-> "quotient", num |-> a, den |-> b]

\* lines 528-539: one row folded into authorMap, a Map kept in insertion
\* order as a sequence of [author, articles, totalPageviews].
AuthorMapPut(authorMap, author, pagePath, pageviews) ==
    LET hits == {k \in 1..Len(authorMap) : authorMap[k].author = author}
    IN  IF hits = {}
        THEN Append(authorMap, [author |-> author, articles |-> {pagePath},
                                totalPageviews |-> Plus(Num(0), pageviews)])
        ELSE LET k == CHOOSE h \in hits : TRUE
             IN  [authorMap EXCEPT
                    ![k] = [author |-> author,
                            articles |-> authorMap[k].articles \cup {pagePath},
                            totalPageviews |-> Plus(authorMap[k].totalPageviews, pageviews)]]

\* Every row goes into the map, whatever its author.
AuthorMapAddAll(authorMap, author, pagePath, pageviews) ==
    AuthorMapPut(authorMap, author, pagePath, pageviews)

\* lines 531-538: a row whose author is known goes into the map.
AuthorMapAdd(authorMap, author, pagePath, pageviews) ==
    IF author # UnknownAuthor
    THEN AuthorMapPut(authorMap, author, pagePath, pageviews)
    ELSE authorMap

\* lines 528-530
AuthorMapRow(authorMap, pagePath, pageviews) ==
    AuthorMapAdd(authorMap, extractAuthorFromUrl(pagePath), pagePath, pageviews)

\* lines 527-539: result.rows.forEach
RECURSIVE AuthorMapOf(_, _)
AuthorMapOf(rows, authorMap) ==
    IF rows = <<>> THEN authorMap
    ELSE AuthorMapOf(Tail(rows),
                     AuthorMapRow(authorMap,
                                  Head(rows).dimensionValues.items[1].value.chars,
                                  parseInt(Head(rows).metricValues.items[1].value.chars)))

\* lines 543-548
AuthorDataOf(entry) ==
    [t |-> "object", author |-> Chars(entry.author),
     articles |-> Num(Cardinality(entry.articles)),
     totalPageviews |-> entry.totalPageviews,
     avgPageviews |-> Quotient(entry.totalPageviews, Num(Cardinality(entry.articles)))]

\* line 549: b.totalPageviews - a.totalPageviews is negative.
MoreViews(a, b) ==
    /\ a.totalPageviews.t = "number"
    /\ b.totalPageviews.t = "number"
    /\ b.totalPageviews.n - a.totalPageviews.n < 0

\* The whole array, whatever n.
SliceAll(items, n) == items

\* slice(0, n)
Slice0(items, n) == SubSeq(items, 1, IF n < Len(items) THEN n ELSE Len(items))

\* lines 519-553
AuthorDataOnOk(result, topN) ==
    IF ~Truthy(result.rows) THEN Outcome(Arr(<<>>), FALSE)
    ELSE Outcome(Arr(Slice0(SortArray(MapSeq(AuthorMapOf(result.rows.items, <<>>),
                                             AuthorDataOf),
                                      MoreViews),
                            topN)),
                 TRUE)

(* --------------------------------------------------- inputs of the model *)
TokenA == AccessToken("ya29.a0AfH", "6SMC-first")
\* Another token, of another account; Google's tokens start alike.
TokenB == AccessToken("ya29.a0AfH", "7TNX-second")
SiteA == "sc-domain:example.com"
PropertyA == "properties/123456"
StartDate == "2024-05-18"
EndDate == "2024-06-14"

\* The fetcher calls the application makes.
Requests ==
    {fetchUserInfo(TokenA), fetchGa4Properties(TokenA), fetchGscSites(TokenA),
     fetchUserInfo(TokenB), fetchGa4Properties(TokenB), fetchGscSites(TokenB),
     fetchGscData(SiteA, TokenA, StartDate, EndDate, <<"query">>, "web", 10),
     fetchGscTrends(SiteA, TokenA, StartDate, EndDate, "web"),
     fetchGa4Trends(PropertyA, TokenA, StartDate, EndDate),
     fetchGa4Totals(PropertyA, TokenA, StartDate, EndDate),
     fetchAuthorData(PropertyA, TokenA, StartDate, EndDate, 10)}

\* What the filter bar hands to fetchAnalyticsData.
FilterStates ==
    {[dateRange |-> "last-28d", ga4Property |-> "123456", gscSite |-> SiteA,
      topN |-> 10, compare |-> c, authorAnalysis |-> a] :
        c \in BOOLEAN, a \in BOOLEAN}

\* The day the report is asked for: noon of 2024-06-15, UTC.
ReportToday == NewDate(MakeDay(2024, 5, 15), 12, 0)
\* The four dates as the strings the fetchers take.
ApiDates(range) == [k \in DOMAIN range |-> Join(range[k], "")]

\* Promise.resolve(value) in the place of a fetcher call.
PromiseResolve(value) == Call("Promise.resolve", "", <<>>, "", <<value>>)
ZeroTotals == [t |-> "object", sessions |-> Num(0), pageviews |-> Num(0)]

\* A fetch that is made whatever the flag says.
OptionalAlways(flag, call, value) == call
\* lines 584 and 587: flag ? fetch : Promise.resolve(value)
Optional(flag, call, value) == IF flag THEN call ELSE PromiseResolve(value)

\* fetchAnalyticsData, lines 575-588: the twelve promises handed to
\* Promise.all, in order.
AnalyticsCalls(f, accessToken, dates) ==
    <<fetchGscData(f.gscSite, accessToken, dates.startDate, dates.endDate,
                   <<"query">>, "web", f.topN),
      fetchGscData(f.gscSite, accessToken, dates.startDate, dates.endDate,
                   <<"page">>, "web", f.topN),
      fetchGscData(f.gscSite, accessToken, dates.startDate, dates.endDate,
                   <<"country">>, "web", f.topN),
      fetchGscData(f.gscSite, accessToken, dates.startDate, dates.endDate,
                   <<"device">>, "web", f.topN),
      fetchGscData(f.gscSite, accessToken, dates.startDate, dates.endDate,
                   <<"page">>, "discover", f.topN),
      fetchGscData(f.gscSite, accessToken, dates.startDate, dates.endDate,
                   <<"country">>, "discover", f.topN),
      fetchGscData(f.gscSite, accessToken, dates.startDate, dates.endDate,
                   <<"device">>, "discover", f.topN),
      fetchGa4Totals("properties/" \o f.ga4Property, accessToken,
                     dates.startDate, dates.endDate),
      Optional(f.compare,
               fetchGa4Totals("properties/" \o f.ga4Property, accessToken,
                              dates.previousStartDate, dates.previousEndDate),
               ZeroTotals),
      fetchGa4Trends("properties/" \o f.ga4Property, accessToken,
                     dates.startDate, dates.endDate),
      fetchGscTrends(f.gscSite, accessToken, dates.startDate, dates.endDate, "web"),
      Optional(f.authorAnalysis,
               fetchAuthorData("properties/" \o f.ga4Property, accessToken,
                               dates.startDate, dates.endDate, f.topN),
               Arr(<<>>))>>
\* line 559: the dates of each selector on that day.
DatesOf ==
    [dateRange \in {f.dateRange : f \in FilterStates} |->
        ApiDates(getDateRange(dateRange, ReportToday))]
\* The twelve promises of each filter state, with the token of the session.
AnalyticsCallsOf ==
    [f \in FilterStates |-> AnalyticsCalls(f, TokenA, DatesOf[f.dateRange])]
NumPromises == 12

\* The sites of the account the App signs in with.
ShopSite == "https://shop.example/"
\* fetchAnalyticsData, line 576: the first of the twelve, by site.
GscKeywordsCall(siteUrl, accessToken) ==
    fetchGscData(siteUrl, accessToken, DatesOf["last-28d"].startDate,
                 DatesOf["last-28d"].endDate, <<"query">>, "web", 10)

Keys ==
    {r.cacheKey : r \in Requests}
        \cup {GscKeywordsCall(site, TokenA).cacheKey : site \in {"", SiteA, ShopSite}}
        \cup {call.cacheKey :
                call \in {c \in UNION {{AnalyticsCallsOf[f][k] : k \in 1..NumPromises} :
                                           f \in FilterStates} :
                              c.fn # "Promise.resolve"}}

\* The idle time before a call, in ms.  Idle time shows only in the age of
\* cache entries, so it is drawn when the cache holds one.
Gaps(c) ==
    IF \A k \in DOMAIN c : c[k] = undefined THEN {0}
    ELSE {0, CACHE_DURATION - 1, CACHE_DURATION}

Obj(rows) == [t |-> "object", rows |-> rows]
Cell(chars) == [t |-> "object", value |-> Chars(chars)]
SearchRow(key, clicks, impressions, ctr, position) ==
    [t |-> "object", keys |-> Arr(<<JStr(key)>>), clicks |-> Num(clicks),
     impressions |-> Num(impressions), ctr |-> Num(ctr), position |-> position]
ReportRow(dimension, metrics) ==
    [t |-> "object", dimensionValues |-> Arr(<<Cell(dimension)>>),
     metricValues |-> Arr(MapSeq(metrics, Cell))]

\* The 2xx bodies each endpoint can answer with.
OkBodies(fn) ==
    CASE fn = "fetchUserInfo" ->
            {[t |-> "object", email |-> JStr("jane@example.com"), name |-> JStr("Jane"),
              given_name |-> JStr("J"), picture |-> JStr("https://example.com/j.png")],
             [t |-> "object", email |-> undefined, name |-> undefined,
              given_name |-> JStr("J"), picture |-> undefined]}
      [] fn = "fetchGa4Properties" ->
            {[t |-> "object", accountSummaries |-> undefined],
             [t |-> "object", accountSummaries |-> Arr(<<
                [t |-> "object", propertySummaries |-> Arr(<<
                    [t |-> "object", property |-> JStr("properties/2"),
                     displayName |-> Chars(<<"s", "h", "o", "p">>)],
                    [t |-> "object", property |-> JStr("properties/1"),
                     displayName |-> Chars(<<"b", "l", "o", "g">>)]>>)],
                [t |-> "object", propertySummaries |-> undefined]>>)]}
      [] fn = "fetchGscSites" ->
            {[t |-> "object", siteEntry |-> undefined],
             [t |-> "object", siteEntry |-> Arr(<<
                [t |-> "object", siteUrl |-> Chars(<<"b", ".", "i", "o">>)],
                [t |-> "object", siteUrl |-> Chars(<<"a", ".", "i", "o">>)]>>)]}
      [] fn \in {"fetchGscData", "fetchGscTrends"} ->
            {Obj(undefined),
             Obj(Arr(<<SearchRow("analytics", 5, 5, 1, Num(3)),
                       SearchRow("dashboard", 0, 7, 0, undefined)>>))}
      [] fn = "fetchGa4Trends" ->
            {Obj(undefined),
             Obj(Arr(<<ReportRow(<<"2", "0", "2", "4", "0", "6", "1", "3">>,
                                 <<<<"1", "2">>, <<"3", "0">>>>)>>))}
      [] fn = "fetchGa4Totals" ->
            {Obj(undefined),
             Obj(Arr(<<ReportRow(<<>>, <<<<"4", "0">>, <<"9", "5">>>>)>>))}
      [] fn = "fetchAuthorData" ->
            {Obj(undefined),
             Obj(Arr(<<ReportRow(<<"/", "b", "l", "o", "g", "/", "2", "0", "2", "4", "/", "n", "e", "w", "s">>, <<<<"5", "0">>>>),
                       ReportRow(<<"/", "a", "u", "t", "h", "o", "r", "/", "j", "a", "n", "e", "-", "d", "o", "e", "/", "a">>, <<<<"3", "0">>>>),
                       ReportRow(<<"/", "b", "y", "/", "a", "l">>, <<<<"4", "1">>>>),
                       ReportRow(<<"/", "a", "u", "t", "h", "o", "r", "/", "j", "a", "n", "e", "-", "d", "o", "e", "/", "b">>, <<<<"1", "2">>>>)>>))}

\* What each fetcher makes of a 2xx body.
OnOk(call, body) ==
    CASE call.fn = "fetchUserInfo" -> UserInfoOnOk(body)
      [] call.fn = "fetchGa4Properties" -> Ga4PropertiesOnOk(body)
      [] call.fn = "fetchGscSites" -> GscSitesOnOk(body)
      [] call.fn = "fetchGscData" -> GscDataOnOk(body)
      [] call.fn = "fetchGscTrends" -> GscTrendsOnOk(body)
      [] call.fn = "fetchGa4Trends" -> Ga4TrendsOnOk(body)
      [] call.fn = "fetchGa4Totals" -> Ga4TotalsOnOk(body)
      [] call.fn = "fetchAuthorData" -> AuthorDataOnOk(body, call.args[5])

\* The bodies of the non-2xx answers that fetchWithRetry does not hand on.
RetriedBodies == {BodyErrorObject}

(* ---------------------------------------------------------- the machine *)
NoCall == Call("none", "", <<>>, "", <<>>)
Resolved(value) == [t |-> "resolved", value |-> value]
Rejected(err) == [t |-> "rejected", error |-> err]

\* One network call: the attempt index (the endpoint index in fetchUserInfo),
\* the time it settled, and the response or the error thrown.  The network
\* answers within the millisecond.
Sent(url, idx, at, response, err) ==
    [url |-> url, idx |-> idx, at |-> at, response |-> response, error |-> err]

\* No fetcher has been called and the cache is empty.
FetchIdle ==
    /\ now = 0
    /\ cache = [k \in Keys |-> undefined]
    /\ lastSet = [k \in Keys |-> undefined]
    /\ pc = "idle"
    /\ req = NoCall
    /\ cached = null
    /\ i = 0
    /\ lastError = null
    /\ timer = Num(0)
    /\ ret = null
    /\ ep = 1
    /\ netLog = <<>>
    /\ settled = null
    /\ nCalls = 0
    /\ faults = 0
\* No utility is being applied.
PureIdle == pureCall = null /\ pureResult = null
\* fetchAnalyticsData has not been called.
OrchIdle == filters = null /\ slots = <<>> /\ issued = {} /\ report = null

\* App.tsx, lines 26-33
InitialFilters ==
    [dateRange |-> "last-28d", compare |-> TRUE, topN |-> 10, authorAnalysis |-> TRUE,
     ga4Property |-> "", gscSite |-> ""]
\* App.tsx, lines 14-33: the state of the component when it mounts.
AppIdle ==
    /\ state = [accessToken |-> null, userInfo |-> null, isLoading |-> FALSE,
                isPropertiesLoading |-> FALSE, data |-> null, hiddenInsights |-> "",
                error |-> null, propertiesError |-> null, ga4Properties |-> <<>>,
                gscSites |-> <<>>, filters |-> InitialFilters]
    /\ jobs = {}
    /\ calls = <<>>
    /\ count = [signIns |-> 0, refreshes |-> 0, changes |-> 0]

Init == FetchIdle /\ PureIdle /\ OrchIdle /\ AppIdle

\* The accessToken argument of a fetcher call.
TokenOf(call) ==
    IF call.fn \in {"fetchUserInfo", "fetchGa4Properties", "fetchGscSites"}
    THEN call.args[1] ELSE call.args[2]
\* dataCache.set(key, data) at the current time, by a fetcher called with
\* accessToken.
Store(key, data, accessToken) ==
    /\ cache' = CacheSet(cache, key, data, now)
    /\ lastSet' = [lastSet EXCEPT ![key] =
                       [data |-> data, timestamp |-> now, by |-> accessToken]]

\* A fetcher is called after an idle gap: the cache lookup that opens every
\* fetcher, and the return of a cached value.
Begin ==
    /\ pc = "idle"
    /\ nCalls < MaxCalls
    /\ \E r \in Requests, gap \in Gaps(cache) :
        /\ now' = now + gap
        /\ req' = r
        /\ IF EmptyArguments(r)
           THEN /\ UNCHANGED <<cached, cache>>
                /\ pc' = "idle"
                /\ settled' = Resolved(Arr(<<>>))
           ELSE /\ cached' = CacheGetValue(cache, r.cacheKey, now')
                /\ cache' = CacheGetMap(cache, r.cacheKey, now')
                /\ IF CacheHit(cached')
                   THEN pc' = "idle" /\ settled' = Resolved(cached')
                   ELSE /\ pc' = IF r.fn = "fetchUserInfo" THEN "userinfo" ELSE "attempt"
                        /\ settled' = null
    /\ i' = 0
    /\ lastError' = null
    /\ timer' = Num(0)
    /\ ret' = null
    /\ ep' = 1
    /\ netLog' = <<>>
    /\ nCalls' = nCalls + 1
    /\ UNCHANGED <<lastSet, faults>>
    /\ UNCHANGED otherVars

\* clearDataCache(), called on sign-out; the record of the last call goes
\* with the session.
ClearDataCache ==
    /\ pc = "idle"
    /\ cache' = CacheClear(cache)
    /\ lastSet' = [k \in Keys |-> undefined]
    /\ req' = NoCall
    /\ cached' = null
    /\ i' = 0
    /\ lastError' = null
    /\ timer' = Num(0)
    /\ ret' = null
    /\ ep' = 1
    /\ netLog' = <<>>
    /\ settled' = null
    /\ UNCHANGED <<now, pc, nCalls, faults>>
    /\ UNCHANGED otherVars

\* Mutant of NextIteration: the loop index is not advanced.
NextIterationStuck(err) ==
    /\ i' = i
    /\ pc' = "attempt"
    /\ ret' = ret

\* fetchWithRetry: the end of one loop iteration (i++ and the loop test),
\* and the throw behind the loop.
NextIteration(err) ==
    /\ i' = i + 1
    /\ IF i + 1 < maxRetries
       THEN pc' = "attempt" /\ ret' = ret
       ELSE pc' = "resume" /\ ret' = Thrown(ThrownAfterLoop(err))

\* fetchWithRetry, lines 47-52: the response is ok.
FetchOk ==
    /\ pc = "attempt"
    /\ \E body \in OkBodies(req.fn) :
        LET response == Response(200, StatusText(200), null, Body("json", body))
        IN  /\ netLog' = Append(netLog, Sent(req.urls[1], i, now, response, null))
            /\ ret' = Returned(response)
    /\ pc' = "resume"
    /\ UNCHANGED <<now, cache, lastSet, req, cached, i, lastError, timer, ep,
                   settled, nCalls, faults>>
    /\ UNCHANGED otherVars

\* fetchWithRetry, lines 55-61: 429, wait and continue.
FetchRateLimited ==
    /\ pc = "attempt"
    /\ faults < MaxFaults
    /\ \E retryAfter \in RetryAfterValues :
        LET response == Response(429, StatusText(429), retryAfter, BodyEmpty)
        IN  /\ netLog' = Append(netLog, Sent(req.urls[1], i, now, response, null))
            /\ timer' = RateLimitDelay(response, i)
    /\ pc' = "sleep"
    /\ faults' = faults + 1
    /\ UNCHANGED <<now, cache, lastSet, req, cached, i, lastError, ret, ep,
                   settled, nCalls>>
    /\ UNCHANGED otherVars

\* Mutant of FetchUnauthorized: 401 and 403 are retried like other errors.
FetchUnauthorizedRetried ==
    /\ pc = "attempt"
    /\ faults < MaxFaults
    /\ \E status \in AuthStatuses, body \in ErrorBodies :
        LET response == Response(status, StatusText(status), null, body)
        IN  /\ netLog' = Append(netLog, Sent(req.urls[1], i, now, response, null))
            /\ lastError' = HttpError(response, i)
            /\ NextIteration(lastError')
    /\ faults' = faults + 1
    /\ UNCHANGED <<now, cache, lastSet, req, cached, timer, ep, settled, nCalls>>
    /\ UNCHANGED otherVars

\* fetchWithRetry, lines 64-66: 401 or 403 is returned at once.
FetchUnauthorized ==
    /\ pc = "attempt"
    /\ faults < MaxFaults
    /\ \E status \in AuthStatuses, body \in ErrorBodies :
        LET response == Response(status, StatusText(status), null, body)
        IN  /\ netLog' = Append(netLog, Sent(req.urls[1], i, now, response, null))
            /\ ret' = Returned(response)
    /\ pc' = "resume"
    /\ faults' = faults + 1
    /\ UNCHANGED <<now, cache, lastSet, req, cached, i, lastError, timer, ep,
                   settled, nCalls>>
    /\ UNCHANGED otherVars

\* fetchWithRetry, line 69: any other status sets lastError and loops.
FetchOtherError ==
    /\ pc = "attempt"
    /\ faults < MaxFaults
    /\ \E status \in OtherStatuses, body \in RetriedBodies :
        LET response == Response(status, StatusText(status), null, body)
        IN  /\ netLog' = Append(netLog, Sent(req.urls[1], i, now, response, null))
            /\ lastError' = HttpError(response, i)
            /\ NextIteration(lastError')
    /\ faults' = faults + 1
    /\ UNCHANGED <<now, cache, lastSet, req, cached, timer, ep, settled, nCalls>>
    /\ UNCHANGED otherVars

\* fetchWithRetry, lines 71-79: fetch threw.
FetchThrows ==
    /\ pc = "attempt"
    /\ faults < MaxFaults
    /\ netLog' = Append(netLog, Sent(req.urls[1], i, now, null, TransportError(i)))
    /\ lastError' = TransportError(i)
    /\ IF i < maxRetries - 1
       THEN /\ timer' = TransportDelay(i)
            /\ pc' = "sleep"
            /\ UNCHANGED <<i, ret>>
       ELSE /\ NextIteration(lastError')
            /\ UNCHANGED timer
    /\ faults' = faults + 1
    /\ UNCHANGED <<now, cache, lastSet, req, cached, ep, settled, nCalls>>
    /\ UNCHANGED otherVars

\* fetchWithRetry, lines 59 and 77: the awaited timeout fires.
TimerFires ==
    /\ pc = "sleep"
    /\ now' = now + TimeoutMs(timer)
    /\ NextIteration(lastError)
    /\ UNCHANGED <<cache, lastSet, req, cached, lastError, timer, ep, netLog,
                   settled, nCalls, faults>>
    /\ UNCHANGED otherVars

\* Mutant of Resume: a failed fetch leaves an empty result in the cache.
ResumeStoresFailure ==
    /\ pc = "resume"
    /\ IF ret.t = "thrown" \/ ~Ok(ret.response)
       THEN /\ settled' = IF ret.t = "thrown" THEN Rejected(ret.error)
                          ELSE Rejected(handleApiError(ret.response, req.apiName))
            /\ Store(req.cacheKey, Arr(<<>>), TokenOf(req))
       ELSE LET out == OnOk(req, ret.response.body.json)
            IN  /\ settled' = Resolved(out.value)
                /\ IF out.store THEN Store(req.cacheKey, out.value, TokenOf(req))
                   ELSE UNCHANGED <<cache, lastSet>>
    /\ pc' = "idle"
    /\ UNCHANGED <<now, req, cached, i, lastError, timer, ret, ep, netLog,
                   nCalls, faults>>
    /\ UNCHANGED otherVars

\* The fetcher goes on after fetchWithRetry: its throw propagates, a
\* response that is not ok goes to handleApiError, an ok one is parsed,
\* stored and returned.
Resume ==
    /\ pc = "resume"
    /\ IF ret.t = "thrown"
       THEN /\ settled' = Rejected(ret.error)
            /\ UNCHANGED <<cache, lastSet>>
       ELSE IF ~Ok(ret.response)
       THEN /\ settled' = IF req.fn = "fetchAuthorData" THEN Resolved(Arr(<<>>))
                          ELSE Rejected(handleApiError(ret.response, req.apiName))
            /\ UNCHANGED <<cache, lastSet>>
       ELSE LET out == OnOk(req, ret.response.body.json)
            IN  /\ settled' = Resolved(out.value)
                /\ IF out.store THEN Store(req.cacheKey, out.value, TokenOf(req))
                   ELSE UNCHANGED <<cache, lastSet>>
    /\ pc' = "idle"
    /\ UNCHANGED <<now, req, cached, i, lastError, timer, ret, ep, netLog,
                   nCalls, faults>>
    /\ UNCHANGED otherVars

\* fetchUserInfo, lines 189-203: an endpoint answers ok.
UserInfoOk ==
    /\ pc = "userinfo"
    /\ \E body \in OkBodies(req.fn) :
        LET response == Response(200, StatusText(200), null, Body("json", body))
            out == UserInfoOnOk(body)
        IN  /\ netLog' = Append(netLog, Sent(req.urls[ep], ep, now, response, null))
            /\ Store(req.cacheKey, out.value, TokenOf(req))
            /\ settled' = Resolved(out.value)
    /\ pc' = "idle"
    /\ UNCHANGED <<now, req, cached, i, lastError, timer, ret, ep, nCalls, faults>>
    /\ UNCHANGED otherVars

\* Mutant of UserInfoFails: the failure of the last endpoint is thrown.
UserInfoFailsThrowing ==
    /\ pc = "userinfo"
    /\ faults < MaxFaults
    /\ \E sent \in
            {Sent(req.urls[ep], ep, now, Response(st, StatusText(st), null, BodyEmpty), null) :
                st \in {401, 500}}
            \cup {Sent(req.urls[ep], ep, now, null, TransportError(ep))} :
        netLog' = Append(netLog, sent)
    /\ IF ep < Len(req.urls)
       THEN /\ ep' = ep + 1
            /\ UNCHANGED <<pc, settled, cache, lastSet>>
       ELSE /\ UNCHANGED <<cache, lastSet>>
            /\ settled' = Rejected(TransportError(ep))
            /\ pc' = "idle"
            /\ UNCHANGED ep
    /\ faults' = faults + 1
    /\ UNCHANGED <<now, req, cached, i, lastError, timer, ret, nCalls>>
    /\ UNCHANGED otherVars

\* fetchUserInfo, lines 204-223: an endpoint fails; after the last one the
\* fallback is stored and returned.
UserInfoFails ==
    /\ pc = "userinfo"
    /\ faults < MaxFaults
    /\ \E sent \in
            {Sent(req.urls[ep], ep, now, Response(st, StatusText(st), null, BodyEmpty), null) :
                st \in {401, 500}}
            \cup {Sent(req.urls[ep], ep, now, null, TransportError(ep))} :
        netLog' = Append(netLog, sent)
    /\ IF ep < Len(req.urls)
       THEN /\ ep' = ep + 1
            /\ UNCHANGED <<pc, settled, cache, lastSet>>
       ELSE /\ Store(req.cacheKey, fallbackUserInfo, TokenOf(req))
            /\ settled' = Resolved(fallbackUserInfo)
            /\ pc' = "idle"
            /\ UNCHANGED ep
    /\ faults' = faults + 1
    /\ UNCHANGED <<now, req, cached, i, lastError, timer, ret, nCalls>>
    /\ UNCHANGED otherVars

Next ==
    \/ Begin
    \/ ClearDataCache
    \/ FetchOk
    \/ FetchRateLimited
    \/ FetchUnauthorized
    \/ FetchOtherError
    \/ FetchThrows
    \/ TimerFires
    \/ Resume
    \/ UserInfoOk
    \/ UserInfoFails

Spec == Init /\ [][Next]_vars



(* --------------------------------------------------- fetchAnalyticsData *)
\* The most fetches of one session that fail.
MaxFailures == 2

\* The 2xx body with rows each endpoint answers with.
RowsBody(fn) == CHOOSE body \in OkBodies(fn) : body.rows # undefined

\* What fetchWithRetry throws once the attempts are used up: the last
\* status other than 401, 403 and 429, the last error of fetch(), or, after
\* 429 on every attempt, its own error.
GivenUp ==
    {HttpError(Response(500, StatusText(500), null, BodyEmpty), maxRetries - 1),
     TransportError(maxRetries - 1),
     ThrownAfterLoop(null)}

\* utils, lines 61-64: num.toLocaleString('en-US') of a whole number that
\* is not negative, its digits in groups of three.
RECURSIVE GroupDigits(_)
GroupDigits(chars) ==
    IF Len(chars) <= 3 THEN chars
    ELSE GroupDigits(SubSeq(chars, 1, Len(chars) - 3)) \o <<",">>
             \o SubSeq(chars, Len(chars) - 2, Len(chars))
formatNumber(num) ==
    IF num = null \/ num = undefined THEN <<EmDash>>
    ELSE GroupDigits(NumberChars(num.n))

\* x || 0
OrZero(x) == IF Truthy(x) THEN x ELSE Num(0)

\* Mutant of MoreSessions: a day of as many sessions takes the place.
MoreSessionsOrEqual(day, max) == OrZero(day.sessions).n >= OrZero(max.sessions).n

\* line 608: (day.sessions || 0) > (max.sessions || 0)
MoreSessions(day, max) == OrZero(day.sessions).n > OrZero(max.sessions).n

\* lines 607-610: ga4Trends.reduce from { date: '', sessions: 0 }
RECURSIVE ReduceHighest(_, _)
ReduceHighest(days, max) ==
    IF days = <<>> THEN max
    ELSE ReduceHighest(Tail(days), IF MoreSessions(Head(days), max) THEN Head(days) ELSE max)
highestSessionsDay(ga4Trends) ==
    ReduceHighest(ga4Trends, [t |-> "object", date |-> Chars(<<>>), sessions |-> Num(0)])

\* line 655: the value of the diagnostic 'Highest Sessions Day'.
HighestSessionsDayValue(day) ==
    IF day.date.chars # <<>>
    THEN day.date.chars \o <<" ", "(">> \o formatNumber(OrZero(day.sessions)) \o <<")">>
    ELSE <<EmDash>>

\* lines 595-604 and 611-664: the report made of the twelve results.  The
\* formatted values of kpis and the other diagnostics are left out.
AppDataOf(f, results, sessionsGrowth, pageviewsGrowth) ==
    [t |-> "appData",
     kpis |-> [sessions |-> results[8].sessions,
               sessionsChange |-> sessionsGrowth,
               sessionsChangeType |->
                   IF Truthy(sessionsGrowth) THEN JStr(getGrowthType(sessionsGrowth.chars))
                   ELSE undefined,
               pageviews |-> results[8].pageviews,
               pageviewsChange |-> pageviewsGrowth,
               pageviewsChangeType |->
                   IF Truthy(pageviewsGrowth) THEN JStr(getGrowthType(pageviewsGrowth.chars))
                   ELSE undefined],
     gsc |-> [web |-> [keywords |-> results[1], urls |-> results[2],
                       countries |-> results[3], devices |-> results[4]],
              discover |-> [urls |-> results[5], countries |-> results[6],
                            devices |-> results[7]]],
     diagnostics |->
         [highestSessionsDay |->
              Chars(HighestSessionsDayValue(highestSessionsDay(results[10].items)))],
     authors |-> results[12],
     trends |-> [ga4 |-> results[10], gsc |-> results[11]]]

\* lines 590-604
AppData(f, results) ==
    AppDataOf(f, results,
              IF f.compare
              THEN Chars(calculateGrowth(results[8].sessions.n, results[9].sessions.n))
              ELSE undefined,
              IF f.compare
              THEN Chars(calculateGrowth(results[8].pageviews.n, results[9].pageviews.n))
              ELSE undefined)

Unsettled(promises) == {k \in 1..Len(promises) : promises[k].settled = null}
AllResolved(promises) ==
    \A k \in 1..Len(promises) :
        promises[k].settled # null /\ promises[k].settled.t = "resolved"
Values(promises) == [k \in 1..Len(promises) |-> promises[k].settled.value]

\* A report that waits for all twelve and takes no notice of a rejection.
ReportAfterLenient(current, f, promises, outcome) ==
    IF current # null THEN current
    ELSE IF AllResolved(promises) THEN Resolved(AppData(f, Values(promises)))
    ELSE null

\* await Promise.all (line 575) and the rest of the function: the promise
\* of fetchAnalyticsData once one of the twelve settled with outcome.
ReportAfter(current, f, promises, outcome) ==
    IF current # null THEN current
    ELSE IF outcome.t = "rejected" THEN outcome
    ELSE IF AllResolved(promises) THEN Resolved(AppData(f, Values(promises)))
    ELSE null

\* A fetcher that ran into the network: what it settles with when
\* fetchWithRetry ends with fetched (the lines after await fetchWithRetry),
\* and whether it stores the value first.
SettlementOk(out) == [settled |-> Resolved(out.value), store |-> out.store]
Settlement(call, fetched) ==
    IF fetched.t = "thrown" THEN [settled |-> Rejected(fetched.error), store |-> FALSE]
    ELSE IF ~Ok(fetched.response)
    THEN [settled |-> IF call.fn = "fetchAuthorData" THEN Resolved(Arr(<<>>))
                      ELSE Rejected(handleApiError(fetched.response, call.apiName)),
          store |-> FALSE]
    ELSE SettlementOk(OnOk(call, fetched.response.body.json))

\* Promise k settles as end says.
SettleAs(k, end) ==
    /\ slots' = [slots EXCEPT ![k].settled = end.settled]
    /\ report' = ReportAfter(report, filters, slots', end.settled)
    /\ IF end.store THEN Store(slots[k].call.cacheKey, end.settled.value,
                                TokenOf(slots[k].call))
       ELSE UNCHANGED <<cache, lastSet>>
\* Promise k settles after fetchWithRetry ended with fetched.
Settle(k, fetched) == SettleAs(k, Settlement(slots[k].call, fetched))

\* lines 557-588: fetchAnalyticsData is called; every fetcher looks into
\* the cache and goes to the network on a miss.  The clock stands still
\* here, so no entry expires.
FetchAnalyticsData ==
    /\ nCalls < MaxCalls
    /\ Unsettled(slots) = {}
    /\ \E f \in FilterStates :
        /\ filters' = f
        /\ slots' = [k \in 1..NumPromises |->
                        LET call == AnalyticsCallsOf[f][k]
                        IN  [call |-> call,
                             settled |->
                                IF call.fn = "Promise.resolve" THEN Resolved(call.args[1])
                                ELSE IF CacheHit(CacheGetValue(cache, call.cacheKey, now))
                                THEN Resolved(CacheGetValue(cache, call.cacheKey, now))
                                ELSE null]]
        /\ issued' = {slots'[k].call : k \in Unsettled(slots')}
        /\ report' = IF AllResolved(slots') THEN Resolved(AppData(f, Values(slots')))
                     ELSE null
    /\ nCalls' = nCalls + 1
    /\ UNCHANGED <<now, cache, lastSet, pc, req, cached, i, lastError, timer, ret, ep,
                   netLog, settled, faults>>
    /\ UNCHANGED <<pureVars, appVars>>

\* The fetch that has waited longest is answered 2xx.
FetchSettlesOk ==
    /\ Unsettled(slots) # {}
    /\ LET k == CHOOSE k \in Unsettled(slots) : \A o \in Unsettled(slots) : k <= o
       IN  Settle(k, Returned(Response(200, StatusText(200), null,
                                       Body("json", RowsBody(slots[k].call.fn)))))
    /\ UNCHANGED <<now, pc, req, cached, i, lastError, timer, ret, ep, netLog, settled,
                   nCalls, faults, filters, issued>>
    /\ UNCHANGED <<pureVars, appVars>>

\* One of the fetches is answered 401 or 403, which fetchWithRetry hands on.
FetchSettlesDenied ==
    /\ faults < MaxFailures
    /\ \E k \in Unsettled(slots), status \in AuthStatuses :
        Settle(k, Returned(Response(status, StatusText(status), null, BodyErrorObject)))
    /\ faults' = faults + 1
    /\ UNCHANGED <<now, pc, req, cached, i, lastError, timer, ret, ep, netLog, settled,
                   nCalls, filters, issued>>
    /\ UNCHANGED <<pureVars, appVars>>

\* fetchWithRetry gives up on one of the fetches.
FetchSettlesThrown ==
    /\ faults < MaxFailures
    /\ \E k \in Unsettled(slots), err \in GivenUp : Settle(k, Thrown(err))
    /\ faults' = faults + 1
    /\ UNCHANGED <<now, pc, req, cached, i, lastError, timer, ret, ep, netLog, settled,
                   nCalls, filters, issued>>
    /\ UNCHANGED <<pureVars, appVars>>

ReportNext ==
    \/ FetchAnalyticsData
    \/ FetchSettlesOk
    \/ FetchSettlesDenied
    \/ FetchSettlesThrown

SpecReport == Init /\ [][ReportNext]_vars


(* ------------------------------------------------------------------ App *)
\* The most sign-ins, clicks on Refresh and changes of a filter.
MaxSignIns == 2
MaxRefreshes == 2
MaxChanges == 2

\* A GA4 property name, and property.replace('properties/', '').
PropertyName(id) == <<"properties/", id>>
ReplaceProperties(name) ==
    LET hits == {k \in 1..Len(name) : name[k] = "properties/"}
        first == CHOOSE k \in hits : \A o \in hits : k <= o
    IN  IF hits = {} THEN Join(name, "")
        ELSE Join(SubSeq(name, 1, first - 1) \o SubSeq(name, first + 1, Len(name)), "")

\* What fetchGa4Properties and fetchGscSites resolve with.
PropertyLists ==
    {<<>>,
     <<[property |-> PropertyName("123456"), displayName |-> "blog"],
       [property |-> PropertyName("777"), displayName |-> "shop"]>>}
SiteLists == {<<>>, <<SiteA, ShopSite>>}

\* What fetchAnalyticsData rejects with.
AnalyticsErrors ==
    GivenUp \cup {handleApiError(Response(403, StatusText(403), null, BodyErrorObject),
                                 "GA4 Totals")}
\* What generateHiddenInsights resolves with; it does not reject.
Insights == {"mock insights", "Error: Could not generate insights from the AI model."}

\* The markup shown for an error: its heading and the detail put into it.
ErrorHtml(heading, detail) == [t |-> "html", heading |-> heading, detail |-> detail]
MissingSelectionError == ErrorHtml("Missing Selection", <<>>)
\* lines 52-91: the message for what fetchAnalyticsData threw.
ErrorMessage(err) ==
    IF err = TransportError(err.origin)
    THEN ErrorHtml("Request Failed: Let's Troubleshoot", <<>>)
    ELSE ErrorHtml("An Error Occurred", err.message)

\* A guard that looks at the property alone.
MissingSelectionOfProperty(f) == f.ga4Property = ""
\* line 41: !filters.ga4Property || !filters.gscSite
MissingSelection(f) == f.ga4Property = "" \/ f.gscSite = ""

\* The report fetchAnalyticsData resolves with, by what it was asked for.
Fetched(job) == [t |-> "appData", filters |-> job.filters, accessToken |-> job.token]

\* An async call that has not returned: what it was called with, where it
\* waits, and the sign-in it was started under.
Job(kind, id, token, phase, f, props, session) ==
    [kind |-> kind, id |-> id, token |-> token, phase |-> phase, filters |-> f,
     ga4Props |-> props, session |-> session]

\* googleApiService, lines 327-336: the rows fetchGscData makes of a 2xx
\* answer, marked with the sign-in whose token asked for them.
GscPayload(job) ==
    Arr(<<[t |-> "object", key |-> JStr("analytics"), siteUrl |-> job.filters.gscSite,
           session |-> job.session]>>)
\* The fetchGscData calls of fetchDataAndInsights call id that wait for
\* the network.
GscFetches(id) == {job \in jobs : job.kind = "fetchGscData" /\ job.id = id}

\* A handler that calls nothing of the cache.
AppLeavesFetchers == UNCHANGED <<fetchVars, pureVars, orchVars>>

\* lines 107-123: Auth reports a token; handleAuthSuccess runs up to its
\* first await.
HandleAuthSuccess ==
    /\ state.accessToken = null
    /\ count.signIns < MaxSignIns
    /\ state' = [state EXCEPT !.accessToken = TokenA, !.isPropertiesLoading = TRUE,
                              !.propertiesError = null,
                              !.userInfo = UserInfo(JStr("user@analytics.app"),
                                                    JStr("Analytics User"),
                                                    JStr("https://ui-avatars.com/api/"))]
    /\ jobs' = jobs \cup {Job("handleAuthSuccess", count.signIns + 1, TokenA, "ga4",
                              null, <<>>, count.signIns + 1)}
    /\ count' = [count EXCEPT !.signIns = @ + 1]
    /\ UNCHANGED calls
    /\ AppLeavesFetchers

\* lines 127-132: fetchGa4Properties resolves; fetchGscSites is awaited.
Ga4PropertiesLoaded ==
    /\ \E job \in jobs, props \in PropertyLists :
        /\ job.kind = "handleAuthSuccess" /\ job.phase = "ga4"
        /\ jobs' = (jobs \ {job}) \cup {[job EXCEPT !.phase = "gsc", !.ga4Props = props]}
    /\ UNCHANGED <<state, calls, count>>
    /\ AppLeavesFetchers

\* lines 134-148 and 172-174: fetchGscSites resolves; the lists are set
\* and the first of each is selected.
GscSitesLoaded ==
    /\ \E job \in jobs, sites \in SiteLists :
        /\ job.kind = "handleAuthSuccess" /\ job.phase = "gsc"
        /\ state' = [state EXCEPT
                        !.ga4Properties = job.ga4Props,
                        !.gscSites = sites,
                        !.filters = [@ EXCEPT
                            !.gscSite = IF Len(sites) > 0 THEN sites[1] ELSE @,
                            !.ga4Property =
                                IF Len(job.ga4Props) > 0
                                THEN ReplaceProperties(job.ga4Props[1].property)
                                ELSE @],
                        !.isPropertiesLoading = FALSE]
        /\ jobs' = jobs \ {job}
    /\ UNCHANGED <<calls, count>>
    /\ AppLeavesFetchers

\* lines 150-174: either listing rejects.
PropertiesFailed ==
    /\ \E job \in jobs, err \in AnalyticsErrors :
        /\ job.kind = "handleAuthSuccess"
        /\ state' = [state EXCEPT
                        !.propertiesError =
                            ErrorHtml("Could not load GA4/GSC properties.", err.message),
                        !.isPropertiesLoading = FALSE]
        /\ jobs' = jobs \ {job}
    /\ UNCHANGED <<calls, count>>
    /\ AppLeavesFetchers

\* The choices the filter bar offers: a listed property or none, a listed
\* site or none, the compare box.
FilterChoices ==
    (IF state.isPropertiesLoading \/ Len(state.ga4Properties) = 0 THEN {}
     ELSE {[key |-> "ga4Property", value |-> v] :
              v \in {""} \cup {ReplaceProperties(state.ga4Properties[k].property) :
                                 k \in 1..Len(state.ga4Properties)}})
    \cup (IF state.isPropertiesLoading \/ Len(state.gscSites) = 0 THEN {}
          ELSE {[key |-> "gscSite", value |-> v] :
                   v \in {""} \cup {state.gscSites[k] : k \in 1..Len(state.gscSites)}})
    \cup {[key |-> "compare", value |-> ~state.filters.compare]}

\* lines 199-201: handleFiltersChange({[key]: value})
HandleFiltersChange ==
    /\ state.accessToken # null
    /\ count.changes < MaxChanges
    /\ \E choice \in FilterChoices :
        state' = [state EXCEPT !.filters =
                     [k \in DOMAIN @ |-> IF k = choice.key THEN choice.value ELSE @[k]]]
    /\ count' = [count EXCEPT !.changes = @ + 1]
    /\ UNCHANGED <<jobs, calls>>
    /\ AppLeavesFetchers

\* Mutant of HandleRefresh: a build leaves the error of the last one.
HandleRefreshKeepsError ==
    /\ state.accessToken # null
    /\ ~state.isLoading /\ ~state.isPropertiesLoading
    /\ count.refreshes < MaxRefreshes
    /\ IF MissingSelection(state.filters)
       THEN /\ state' = [state EXCEPT !.isLoading = FALSE, !.hiddenInsights = "",
                                      !.error = MissingSelectionError, !.data = null]
            /\ UNCHANGED <<jobs, calls>>
       ELSE LET key == GscKeywordsCall(state.filters.gscSite, state.accessToken).cacheKey
                got == CacheGetValue(cache, key, now)
            IN  /\ state' = [state EXCEPT !.isLoading = TRUE, !.hiddenInsights = "",
                                          !.data = null]
                /\ jobs' = jobs
                    \cup {Job("fetchDataAndInsights", count.refreshes + 1,
                              state.accessToken, "analytics", state.filters, <<>>,
                              count.signIns)}
                    \cup (IF CacheHit(got) THEN {}
                          ELSE {Job("fetchGscData", count.refreshes + 1,
                                    state.accessToken, "network", state.filters, <<>>,
                                    count.signIns)})
                /\ calls' = Append(calls, [filters |-> state.filters,
                                           accessToken |-> state.accessToken,
                                           session |-> count.signIns,
                                           cached |-> got])
    /\ count' = [count EXCEPT !.refreshes = @ + 1]
    /\ AppLeavesFetchers

\* lines 203-207 and 35-49: a click on Refresh, which is enabled while
\* neither the report nor the lists load; fetchDataAndInsights runs up to
\* its return or its first await.  Of the twelve fetchers it starts, the
\* first is followed: fetchGscData reads the cache (googleApiService, lines
\* 294-296) and goes to the network on a miss.  The clock stands still, so
\* no entry expires.
HandleRefresh ==
    /\ state.accessToken # null
    /\ ~state.isLoading /\ ~state.isPropertiesLoading
    /\ count.refreshes < MaxRefreshes
    /\ IF MissingSelection(state.filters)
       THEN /\ state' = [state EXCEPT !.isLoading = FALSE, !.hiddenInsights = "",
                                      !.error = MissingSelectionError, !.data = null]
            /\ UNCHANGED <<jobs, calls>>
       ELSE LET key == GscKeywordsCall(state.filters.gscSite, state.accessToken).cacheKey
                got == CacheGetValue(cache, key, now)
            IN  /\ state' = [state EXCEPT !.isLoading = TRUE, !.hiddenInsights = "",
                                          !.error = null, !.data = null]
                /\ jobs' = jobs
                    \cup {Job("fetchDataAndInsights", count.refreshes + 1,
                              state.accessToken, "analytics", state.filters, <<>>,
                              count.signIns)}
                    \cup (IF CacheHit(got) THEN {}
                          ELSE {Job("fetchGscData", count.refreshes + 1,
                                    state.accessToken, "network", state.filters, <<>>,
                                    count.signIns)})
                /\ calls' = Append(calls, [filters |-> state.filters,
                                           accessToken |-> state.accessToken,
                                           session |-> count.signIns,
                                           cached |-> got])
    /\ count' = [count EXCEPT !.refreshes = @ + 1]
    /\ AppLeavesFetchers

\* googleApiService, lines 300-336: a fetchGscData that went to the
\* network is answered 2xx and stores its rows under its key.
GscDataFetched ==
    /\ \E job \in jobs :
        /\ job.kind = "fetchGscData"
        /\ Store(GscKeywordsCall(job.filters.gscSite, job.token).cacheKey, GscPayload(job),
                 job.token)
        /\ jobs' = jobs \ {job}
    /\ UNCHANGED <<now, pc, req, cached, i, lastError, timer, ret, ep, netLog, settled,
                   nCalls, faults>>
    /\ UNCHANGED <<pureVars, orchVars, state, calls, count>>

\* lines 47-50: fetchAnalyticsData resolves, all its fetchers having
\* resolved; generateHiddenInsights is awaited.
AnalyticsResolved ==
    /\ \E job \in jobs :
        /\ job.kind = "fetchDataAndInsights" /\ job.phase = "analytics"
        /\ GscFetches(job.id) = {}
        /\ state' = [state EXCEPT !.data = Fetched(job)]
        /\ jobs' = (jobs \ {job}) \cup {[job EXCEPT !.phase = "insights"]}
    /\ UNCHANGED <<calls, count>>
    /\ AppLeavesFetchers

\* lines 52-99: fetchAnalyticsData rejects, because its fetchGscData did or
\* because another fetcher did, fetchGscData still waiting.
AnalyticsRejected ==
    /\ \E job \in jobs, err \in AnalyticsErrors :
        /\ job.kind = "fetchDataAndInsights" /\ job.phase = "analytics"
        /\ state' = [state EXCEPT
                        !.error = ErrorMessage(err),
                        !.data = null,
                        !.hiddenInsights = "Failed to generate insights. Please try again.",
                        !.isLoading = FALSE]
        /\ \E ended \in {{}, GscFetches(job.id)} : jobs' = jobs \ ({job} \cup ended)
    /\ UNCHANGED <<calls, count>>
    /\ AppLeavesFetchers

\* Mutant of InsightsGenerated: the finally block is left out.
InsightsGeneratedStillLoading ==
    /\ \E job \in jobs, text \in Insights :
        /\ job.kind = "fetchDataAndInsights" /\ job.phase = "insights"
        /\ state' = [state EXCEPT !.hiddenInsights = text]
        /\ jobs' = jobs \ {job}
    /\ UNCHANGED <<calls, count>>
    /\ AppLeavesFetchers

\* lines 50-51 and 97-99: generateHiddenInsights resolves.
InsightsGenerated ==
    /\ \E job \in jobs, text \in Insights :
        /\ job.kind = "fetchDataAndInsights" /\ job.phase = "insights"
        /\ state' = [state EXCEPT !.hiddenInsights = text, !.isLoading = FALSE]
        /\ jobs' = jobs \ {job}
    /\ UNCHANGED <<calls, count>>
    /\ AppLeavesFetchers

\* Mutant of HandleSignOut: the sign-out also ends the loading state.
HandleSignOutNotLoading ==
    /\ state.accessToken # null
    /\ state' = [state EXCEPT !.accessToken = null, !.userInfo = null, !.data = null,
                              !.error = null, !.propertiesError = null,
                              !.ga4Properties = <<>>, !.gscSites = <<>>,
                              !.hiddenInsights = "", !.filters = InitialFilters,
                              !.isLoading = FALSE]
    /\ cache' = CacheClear(cache)
    /\ lastSet' = [k \in Keys |-> undefined]
    /\ UNCHANGED <<now, pc, req, cached, i, lastError, timer, ret, ep, netLog, settled,
                   nCalls, faults>>
    /\ UNCHANGED <<pureVars, orchVars, jobs, calls, count>>

\* lines 178-197: handleSignOut, clearDataCache() included.
HandleSignOut ==
    /\ state.accessToken # null
    /\ state' = [state EXCEPT !.accessToken = null, !.userInfo = null, !.data = null,
                              !.error = null, !.propertiesError = null,
                              !.ga4Properties = <<>>, !.gscSites = <<>>,
                              !.hiddenInsights = "", !.filters = InitialFilters]
    /\ cache' = CacheClear(cache)
    /\ lastSet' = [k \in Keys |-> undefined]
    /\ UNCHANGED <<now, pc, req, cached, i, lastError, timer, ret, ep, netLog, settled,
                   nCalls, faults>>
    /\ UNCHANGED <<pureVars, orchVars, jobs, calls, count>>

AppNext ==
    \/ GscDataFetched
    \/ HandleAuthSuccess
    \/ Ga4PropertiesLoaded
    \/ GscSitesLoaded
    \/ PropertiesFailed
    \/ HandleFiltersChange
    \/ HandleRefresh
    \/ AnalyticsResolved
    \/ AnalyticsRejected
    \/ InsightsGenerated
    \/ HandleSignOut

SpecApp == Init /\ [][AppNext]_vars

\* Every network call settles and generateHiddenInsights answers: a call
\* that waits is resumed.
Settlements == GscDataFetched \/ AnalyticsResolved \/ AnalyticsRejected \/ InsightsGenerated
SpecAppLive == SpecApp /\ WF_vars(Settlements)

(* ------------------------------------------------- the utilities applied *)
\* The largest count given to calculateGrowth besides 50, 100 and 150, and
\* the number of days, from 2023-01-01 on, on which getDateRange is called.
MaxCount == 17
MaxDays == 731

Selectors == {"last-28d", "last-30d", "last-3m", "last-6m", "custom"}
TimeZones == {-8, 0, 9}
Hours == {0, 12, 23}
Todays == {MakeDay(2023, 0, 1) + k : k \in 0..(MaxDays - 1)}
Counts == (-3..MaxCount) \cup {50, 100, 150}

\* Strings given to getGrowthType that calculateGrowth need not produce.
Changes ==
    {<<>>, <<"-">>, <<"+">>, <<EmDash>>, <<"0", "%">>, <<"0", ".", "0", "%">>,
     <<"+", "0", ".", "0", "%">>, <<"-", "0", ".", "0", "%">>,
     <<"-", "0", ".", "1", "%">>, <<"+", "5", "%">>, <<"-", "5", "%">>,
     <<"-", "0", "%">>, <<"+", "0", "%">>, <<"0">>, <<"n", "/", "a">>, <<"-", EmDash>>}

\* Paths of pages: the blog section or not, an author marker or not, a slug,
\* a title.
Slugs ==
    {<<"j", "a", "n", "e", "-", "d", "o", "e">>,
     <<"a", "l">>,
     <<"7">>,
     <<"2", "0", "2", "4">>,
     <<"0", "5">>,
     <<"2", "0", "2", "4", "-", "0", "5">>,
     <<"2", "0", "2", "4", "-", "0", "5", "-", "1", "2">>,
     <<"n", "e", "w", "s">>,
     <<"N", "e", "w", "s">>,
     <<"t", "e", "c", "h">>}
Path(segments) == <<"/">> \o JoinChars(segments, "/")
PagePaths ==
    {Path(section \o marker \o <<slug, <<"p", "o", "s", "t">>>>) :
        section \in {<<>>, <<<<"b", "l", "o", "g">>>>, <<<<"B", "l", "o", "g">>>>},
        marker \in {<<>>} \cup {<<m>> : m \in NextSegmentMarkers},
        slug \in Slugs}

\* Full URLs with and without a query string, text that is no URL, URLs
\* that new URL() refuses, and paths that end early.
OtherUrls ==
    {<<"h", "t", "t", "p", "s", ":", "/", "/", "h", "o", "s", "t", "/", "a", "u", "t", "h", "o", "r", "/", "1", "2", "?", "a", "u", "t", "h", "o", "r", "=", "j", "a", "n", "e", "-", "d", "o", "e">>,
     <<"h", "t", "t", "p", "s", ":", "/", "/", "h", "o", "s", "t", "/", "b", "y", "/", "a", "?", "a", "u", "t", "h", "o", "r", "=", "j", "a", "n", "e", "-", "d", "o", "e">>,
     <<"h", "t", "t", "p", "s", ":", "/", "/", "h", "o", "s", "t", "/", "w", "r", "i", "t", "e", "r", "/", "7", ".", "h", "t", "m", "l", "?", "w", "r", "i", "t", "e", "r", "=", "b", "o", "b", "+", "l", "e", "e">>,
     <<"h", "t", "t", "p", "s", ":", "/", "/", "h", "o", "s", "t", "/", "b", "l", "o", "g", "/", "2", "0", "2", "4", "/", "p", "o", "s", "t", "?", "a", "u", "t", "h", "o", "r", "=", "j", "a", "n", "e", "-", "d", "o", "e">>,
     <<"h", "t", "t", "p", "s", ":", "/", "/", "h", "o", "s", "t", "/", "b", "l", "o", "g", "/", "2", "0", "2", "4", "-", "0", "5", "-", "1", "2", "/", "p", "o", "s", "t">>,
     <<"h", "t", "t", "p", "s", ":", "/", "/", "h", "o", "s", "t", "/", "p", "?", "b", "y", "=", "a", "l", "&", "a", "u", "t", "h", "o", "r", "=", "j", "a", "n", "e", "-", "d", "o", "e">>,
     <<"h", "t", "t", "p", "s", ":", "/", "/", "h", "o", "s", "t", "/", "p", "?", "a", "u", "t", "h", "o", "r", "=", "7">>,
     <<"h", "t", "t", "p", "s", ":", "/", "/", "h", "o", "s", "t", "/", "a", "u", "t", "h", "o", "r", "/", "j", "a", "n", "e", "-", "d", "o", "e">>,
     <<"h", "t", "t", "p", ":", "/", "/", "h", "o", "s", "t">>,
     <<"h", "t", "t", "p", "s", ":", "/", "/", "h", "o", "s", "t", "/", "p", "o", "s", "t", "s", "/", "a", "u", "t", "h", "o", "r", "/", "j", "a", "n", "e", "_", "d", "o", "e", "/", "x">>,
     <<"n", "o", "t", " ", "a", " ", "v", "a", "l", "i", "d", " ", "u", "r", "l">>,
     <<"h", "t", "t", "p", ":", "/", "/">>,
     <<"h", "t", "t", "p", "s", ":", "/", "/">>,
     <<>>,
     <<"/">>,
     <<"/", "b", "l", "o", "g", "/", "2", "0", "2", "4", "/", "0", "5", "/", "1", "2", "/", "j", "a", "n", "e", "-", "d", "o", "e">>,
     <<"/", "b", "l", "o", "g">>,
     <<"/", "a", "u", "t", "h", "o", "r">>,
     <<"/", "p", "?", "a", "u", "t", "h", "o", "r", "=", "j", "a", "n", "e", "-", "d", "o", "e">>,
     <<"/", "a", "u", "t", "h", "o", "r", "/", "1", "2", "?", "a", "u", "t", "h", "o", "r", "=", "j", "a", "n", "e", "-", "d", "o", "e">>,
     <<"?">>,
     <<"h", "t", "t", "p", "s", ":", "/", "/", "?", "a", "u", "t", "h", "o", "r", "=", "j", "a", "n", "e", "-", "d", "o", "e">>,
     <<"/", "b", "y", "/", "x", "_", ".", "p", "h", "p">>}

\* The rows of a runReport answer by pagePath: n authors with one article
\* each, in one of four orders of pageviews, and as extras a row of no
\* author in front, a second row of the first author's page, and a second
\* article of the last author.
MaxAuthors == 12
Letters == <<"a", "b", "c", "d", "e", "f", "g", "h", "i", "j", "k", "l", "m">>
AuthorPath(k, article) == Path(<<<<"a", "u", "t", "h", "o", "r">>, <<"x", Letters[k]>>, <<article>>>>)
ViewOrders == {"rising", "falling", "equal", "mixed"}
ViewsIn(order, k) ==
    CASE order = "rising" -> k
      [] order = "falling" -> MaxAuthors + 1 - k
      [] order = "equal" -> 5
      [] order = "mixed" -> (k * 5) % 7
RowExtras == SUBSET {"unknown", "again", "second"}
AuthorRows(n, order, extras) ==
    (IF "unknown" \in extras
     THEN <<ReportRow(<<"/", "b", "l", "o", "g", "/", "2", "0", "2", "4", "/", "n", "e", "w", "s">>, <<<<"5", "0">>>>)>>
     ELSE <<>>)
    \o [k \in 1..n |-> ReportRow(AuthorPath(k, "p"), <<NumberChars(ViewsIn(order, k))>>)]
    \o (IF "again" \in extras
        THEN <<ReportRow(AuthorPath(1, "p"), <<<<"3">>>>)>>
        ELSE <<>>)
    \o (IF "second" \in extras /\ n > 0
        THEN <<ReportRow(AuthorPath(n, "q"), <<<<"2", "0">>>>)>>
        ELSE <<>>)
AuthorReports ==
    {AuthorRows(n, order, extras) :
        n \in 0..MaxAuthors, order \in ViewOrders, extras \in RowExtras}

\* The GA4 sessions series of a report: up to MaxPoints days in the order
\* of their dates, of no session, of a few and of more than a thousand.
MaxPoints == 3
SessionCounts == {0, 7, 1200}
TrendDay(k, sessions) ==
    [t |-> "object", date |-> Chars(IsoDate(ReportToday.localDay - k)),
     sessions |-> Num(sessions)]
SessionSeries ==
    UNION {{[k \in 1..n |-> TrendDay(n - k + 1, counts[k])] :
                counts \in [1..n -> SessionCounts]} : n \in 0..MaxPoints}

PureCalls ==
    {[fn |-> "getDateRange", dateRange |-> s, utcDay |-> d, utcHour |-> h, tz |-> z] :
        s \in Selectors, d \in Todays, h \in Hours, z \in TimeZones}
    \cup {[fn |-> "calculateGrowth", current |-> c, previous |-> p] :
            c \in Counts, p \in Counts}
    \cup {[fn |-> "getGrowthType", change |-> s] : s \in Changes}
    \cup {[fn |-> "extractAuthorFromUrl", url |-> u] : u \in PagePaths \cup OtherUrls}
    \cup {[fn |-> "fetchAuthorData", rows |-> r, topN |-> InitialFilters.topN] :
            r \in AuthorReports}
    \cup {[fn |-> "highestSessionsDay", ga4Trends |-> series] : series \in SessionSeries}

\* What a utility returned.
Value(value) == [t |-> "value", value |-> value]

Pending(fn) == pureCall # null /\ pureCall.fn = fn /\ pureResult = null
Applied(fn) == pureCall # null /\ pureCall.fn = fn /\ pureResult # null

UtilsInit ==
    FetchIdle /\ OrchIdle /\ AppIdle /\ pureCall \in PureCalls /\ pureResult = null

GetDateRange ==
    /\ Pending("getDateRange")
    /\ pureResult' = Value(getDateRange(pureCall.dateRange,
                                        NewDate(pureCall.utcDay, pureCall.utcHour,
                                                pureCall.tz)))
    /\ UNCHANGED <<pureCall, fetchVars, orchVars, appVars>>

CalculateGrowth ==
    /\ Pending("calculateGrowth")
    /\ pureResult' = Value(calculateGrowth(pureCall.current, pureCall.previous))
    /\ UNCHANGED <<pureCall, fetchVars, orchVars, appVars>>

GetGrowthType ==
    /\ Pending("getGrowthType")
    /\ pureResult' = Value(getGrowthType(pureCall.change))
    /\ UNCHANGED <<pureCall, fetchVars, orchVars, appVars>>

\* googleApiService, lines 603 and 618: the change type of a growth.
ChangeTypeOfGrowth ==
    /\ Applied("calculateGrowth")
    /\ pureCall' = [fn |-> "changeType", change |-> pureResult.value,
                    current |-> pureCall.current, previous |-> pureCall.previous]
    /\ pureResult' = Value(getGrowthType(pureResult.value))
    /\ UNCHANGED <<fetchVars, orchVars, appVars>>

ExtractAuthorFromUrl ==
    /\ Pending("extractAuthorFromUrl")
    /\ pureResult' = Value(extractAuthorFromUrl(pureCall.url))
    /\ UNCHANGED <<pureCall, fetchVars, orchVars, appVars>>

\* googleApiService, lines 519-553: what fetchAuthorData makes of the rows
\* of a 2xx answer.
AggregateAuthors ==
    /\ Pending("fetchAuthorData")
    /\ pureResult' = Value(AuthorDataOnOk(Obj(Arr(pureCall.rows)), pureCall.topN).value.items)
    /\ UNCHANGED <<pureCall, fetchVars, orchVars, appVars>>

\* googleApiService, lines 606-610 and 655: the highest day of the series
\* and the diagnostic made of it.
HighestSessionsDay ==
    /\ Pending("highestSessionsDay")
    /\ pureResult' = Value(HighestSessionsDayValue(highestSessionsDay(pureCall.ga4Trends)))
    /\ UNCHANGED <<pureCall, fetchVars, orchVars, appVars>>

UtilsNext ==
    \/ AggregateAuthors
    \/ HighestSessionsDay
    \/ GetDateRange
    \/ CalculateGrowth
    \/ GetGrowthType
    \/ ChangeTypeOfGrowth
    \/ ExtractAuthorFromUrl

SpecUtils == UtilsInit /\ [][UtilsNext]_vars


(* ---------------------------------------------------------- properties *)
\* The call in progress, or the last one, went through fetchWithRetry.
ByRetry == req.fn \notin {"none", "fetchUserInfo"}

\* fetchWithRetry has returned or thrown.
Ended == pc \in {"resume", "idle"}

\* The cache lookup of the current call has just been made.
AfterGet ==
    /\ req # NoCall
    /\ ~EmptyArguments(req)
    /\ netLog = <<>>
    /\ pc \in {"idle", "attempt", "userinfo"}

Last(log) == log[Len(log)]
IsResponse(sent) == sent.response # null
HasStatus(sent, statuses) == IsResponse(sent) /\ sent.response.status \in statuses
Succeeded(sent) == IsResponse(sent) /\ Ok(sent.response)
Contains(message, part) == \E k \in 1..Len(message) : message[k] = part

\* Every network call of the current fetcher call failed.
NetworkFailed ==
    /\ netLog # <<>>
    /\ \A k \in 1..Len(netLog) : ~Succeeded(netLog[k])

\* Every attempt of the current fetcher call threw.
AllThrew ==
    /\ netLog # <<>>
    /\ \A k \in 1..Len(netLog) : netLog[k].error # null

\* C1: a payload stored at time T is returned by a get at T' when
\* T' - T < 5 * 60 * 1000 ms; when T' - T >= 5 * 60 * 1000 ms the get returns
\* null and the entry is gone from the cache afterwards.
C1_TtlBoundary ==
    (AfterGet /\ lastSet[req.cacheKey] # undefined) =>
        LET stored == lastSet[req.cacheKey]
        IN  IF now - stored.timestamp < 5 * 60 * 1000
            THEN cached = stored.data
            ELSE cached = null /\ cache[req.cacheKey] = undefined

\* A get exactly five minutes after the set misses and evicts.
C1_Witness ==
    /\ AfterGet
    /\ lastSet[req.cacheKey] # undefined
    /\ now - lastSet[req.cacheKey].timestamp = 5 * 60 * 1000
    /\ cached = null
    /\ cache[req.cacheKey] = undefined

\* C2: a fetcher called while the cache holds an unexpired entry under its
\* signature resolves with that entry's payload and makes no network call.
C2_HitAvoidsNetwork ==
    [][(/\ nCalls' = nCalls + 1
        /\ ~EmptyArguments(req')
        /\ cache[req'.cacheKey] # undefined
        /\ now' - cache[req'.cacheKey].timestamp < 5 * 60 * 1000)
       => (/\ settled' = Resolved(cache[req'.cacheKey].data)
           /\ netLog' = <<>>
           /\ pc' = "idle")]_vars

\* A second call served from an entry one millisecond short of expiry; the
\* entry holds an empty array.
C2_Witness ==
    /\ AfterGet
    /\ pc = "idle"
    /\ nCalls = 2
    /\ lastSet[req.cacheKey] # undefined
    /\ now - lastSet[req.cacheKey].timestamp = 5 * 60 * 1000 - 1
    /\ settled = Resolved(Arr(<<>>))
    /\ cached = Arr(<<>>)

\* C3: after a fetcher resolved from a 2xx response, the cache holds the
\* resolved value under the call's signature, also when the response
\* carried no rows.
C3_SuccessStored ==
    (/\ pc = "idle"
     /\ netLog # <<>>
     /\ Succeeded(Last(netLog))
     /\ settled.t = "resolved")
    => (/\ cache[req.cacheKey] # undefined
        /\ cache[req.cacheKey].data = settled.value)

C5_AuthFailFast ==
    ByRetry =>
        \A k \in 1..Len(netLog) :
            HasStatus(netLog[k], {401, 403}) =>
                /\ k = Len(netLog)
                /\ k = netLog[k].idx + 1
                /\ Ended
                /\ ret = Returned(netLog[k].response)
                /\ now = netLog[k].at

\* A 403 on the second attempt, after a 429 on the first.
C5_Witness ==
    /\ ByRetry
    /\ pc = "resume"
    /\ Len(netLog) = 2
    /\ HasStatus(netLog[1], {429})
    /\ HasStatus(netLog[2], {403})
    /\ ret = Returned(netLog[2].response)

\* The wait the claim names for a 429 received by attempt index sent.idx.
ClaimedBackoff(sent) ==
    IF sent.response.retryAfter = Chars(<<"3">>) THEN 3 * 1000
    ELSE (sent.idx + 1) * 2000

C7_TransportRetries ==
    (ByRetry /\ Ended /\ AllThrew) =>
        /\ Len(netLog) = 3
        /\ \A k \in 1..2 : netLog[k + 1].at - netLog[k].at = k * 1000
        /\ ret = Thrown(netLog[3].error)
        /\ pc = "idle" => settled = Rejected(netLog[3].error)

\* Three throws, the fetcher rejected with the third.
C7_Witness ==
    /\ ByRetry
    /\ pc = "idle"
    /\ AllThrew
    /\ Len(netLog) = 3
    /\ netLog[3].at - netLog[1].at = 3000
    /\ settled = Rejected(TransportError(2))

\* The message the claim names for a response body.
ClaimedDetail(response) ==
    LET json == response.body.json
    IN  IF /\ json # InvalidJson
           /\ json.error.t = "object"
           /\ Truthy(json.error.message)
        THEN json.error.message.s
        ELSE IF response.body.text # "" THEN response.body.text
        ELSE response.statusText

\* C8: when the attempts are exhausted on a non-2xx status other than 401,
\* 403 and 429, the fetcher rejects with a message built from the last
\* response body: its error.message, else the raw body, else the status
\* text.
C8_MessageFromBody ==
    (/\ ByRetry
     /\ pc = "idle"
     /\ Len(netLog) = 3
     /\ HasStatus(Last(netLog), OtherStatuses))
    => (/\ settled.t = "rejected"
        /\ Contains(settled.error.message, ClaimedDetail(Last(netLog).response)))

\* Each attempt consumed by fetchWithRetry so far is one network call.
AttemptsCounted ==
    ByRetry =>
        /\ Len(netLog) <= 3
        /\ \A k \in 1..Len(netLog) : netLog[k].idx = k - 1
        /\ pc = "attempt" => Len(netLog) = i /\ i < 3
        /\ pc = "sleep" => Len(netLog) = i + 1

\* The steps fetchWithRetry has left at most: two for each attempt not yet
\* made, one less while a timeout is awaited.
StepsLeft ==
    IF pc = "attempt" THEN 2 * (3 - i)
    ELSE IF pc = "sleep" THEN 2 * (3 - i) - 1
    ELSE 0

\* The pending network call can settle, the pending timeout can fire.
CanProceed ==
    /\ pc = "attempt" => ENABLED FetchOk
    /\ pc = "sleep" => ENABLED TimerFires

\* C9: one call of fetchWithRetry makes at most three network calls, every
\* 429, other non-2xx status and throw consuming one attempt; it ends
\* provided each network call settles: it is never stuck and each of its
\* steps brings the end nearer.
C9_AttemptCeiling ==
    /\ [](AttemptsCounted /\ CanProceed)
    /\ [][(pc \in {"attempt", "sleep"}) => (StepsLeft' < StepsLeft)]_vars

\* Three attempts consumed by a 429, a 500 and a throw.
C9_Witness ==
    /\ ByRetry
    /\ pc = "resume"
    /\ Len(netLog) = 3
    /\ HasStatus(netLog[1], {429})
    /\ HasStatus(netLog[2], OtherStatuses)
    /\ netLog[3].error # null
    /\ ret.t = "thrown"

\* The fetchers of metric rows, totals and trends.
TaggedFetchers ==
    {"fetchGscData", "fetchGscTrends", "fetchGa4Trends", "fetchGa4Totals"}

\* C10: every error a metric-row, totals or trend fetcher rejects with
\* names the provider (and, for metric rows, the dimension) in its message,
\* also after the attempts are exhausted.
C10_ErrorsNameProvider ==
    (pc = "idle" /\ req.fn \in TaggedFetchers /\ settled.t = "rejected")
    => Contains(settled.error.message, req.apiName)

(* ---------------------------------------- properties: fetchAnalyticsData *)
\* The places, among the twelve, of the fetches the report cannot do without.
Required(f) == (1..8) \cup (IF f.compare THEN {9} ELSE {}) \cup {10, 11}
RejectedAt(k) == slots[k].settled # null /\ slots[k].settled.t = "rejected"
ResolvedAt(k) == slots[k].settled # null /\ slots[k].settled.t = "resolved"

\* C11: once a required fetch has rejected, fetchAnalyticsData has rejected,
\* with the error of the fetch that rejected first, and it stays so; no
\* report is ever in the cache.
C11_FailFast ==
    /\ [](/\ filters # null /\ (\E k \in Required(filters) : RejectedAt(k))
             => report # null /\ report.t = "rejected"
          /\ \A key \in Keys : cache[key] # undefined => cache[key].data.t # "appData")
    /\ [][nCalls' = nCalls =>
            /\ \A k \in Required(filters) :
                  (slots[k].settled = null /\ report = null
                       /\ slots'[k].settled # null /\ slots'[k].settled.t = "rejected")
                  => report' = slots'[k].settled
            /\ report # null => report' = report]_vars
\* The GA4 trends fetch failed in transport on every attempt while other
\* fetches, some of them already stored, were still under way.
C11_Witness ==
    /\ filters # null
    /\ RejectedAt(10)
    /\ report = Rejected(TransportError(maxRetries - 1))
    /\ Unsettled(slots) # {}
    /\ \E key \in Keys : cache[key] # undefined

\* C12: with authorAnalysis on, when the author fetch has failed and all
\* required fetches have succeeded, fetchAnalyticsData has resolved with a
\* report whose authors list is empty.
C12_AuthorFailureTolerated ==
    (/\ filters # null /\ filters.authorAnalysis
     /\ \A k \in Required(filters) : ResolvedAt(k)
     /\ RejectedAt(12))
    => /\ report # null /\ report.t = "resolved"
       /\ report.value.authors = Arr(<<>>)

\* The twelve promises had both flags been on.
WithFlagsOn(f) == AnalyticsCallsOf[[f EXCEPT !.compare = TRUE, !.authorAnalysis = TRUE]]

\* C13: with compare off no request for the previous window is issued and
\* its totals are {sessions: 0, pageviews: 0}; with authorAnalysis off no
\* author request is issued and the authors list is empty; every other
\* fetch goes to the network exactly when it would with both flags on.
C13_OptionalDefaults ==
    /\ [](filters # null =>
            /\ ~filters.compare =>
                  /\ slots[9].settled = Resolved(ZeroTotals)
                  /\ WithFlagsOn(filters)[9] \notin issued
                  /\ report # null /\ report.t = "resolved" =>
                        report.value.kpis.sessionsChange = undefined
            /\ ~filters.authorAnalysis =>
                  /\ \A call \in issued : call.fn # "fetchAuthorData"
                  /\ report # null /\ report.t = "resolved" =>
                        report.value.authors = Arr(<<>>))
    /\ [][nCalls' = nCalls + 1 =>
            issued' =
                {WithFlagsOn(filters')[k] :
                    k \in {j \in 1..NumPromises :
                             /\ j = 9 => filters'.compare
                             /\ j = 12 => filters'.authorAnalysis
                             /\ ~CacheHit(CacheGetValue(cache,
                                                        WithFlagsOn(filters')[j].cacheKey,
                                                        now))}}]_vars
\* The first report of a session, with both flags off, is there: ten
\* fetches went to the network.
C13_Witness ==
    /\ filters # null /\ ~filters.compare /\ ~filters.authorAnalysis
    /\ nCalls = 1
    /\ report # null /\ report.t = "resolved"
    /\ Cardinality(issued) = 10
    /\ report.value.authors = Arr(<<>>)

(* ------------------------------------------------------ properties: App *)
\* C14: every call of fetchAnalyticsData was given a property and a site
\* that are not empty, and a refresh with either of them empty sets an
\* error, leaves isLoading false and starts no call.
C14_NoFetchWithoutSelection ==
    /\ [](/\ \A k \in 1..Len(calls) :
                calls[k].filters.ga4Property # "" /\ calls[k].filters.gscSite # ""
          /\ \A job \in jobs :
                job.kind = "fetchDataAndInsights" =>
                    \E k \in 1..Len(calls) : calls[k].filters = job.filters)
    /\ [][(/\ count'.refreshes = count.refreshes + 1
           /\ state.filters.ga4Property = "" \/ state.filters.gscSite = "")
          => /\ state'.error # null
             /\ ~state'.isLoading
             /\ jobs' = jobs
             /\ calls' = calls]_vars
\* After a report was asked for, the site was deselected and Refresh was
\* clicked again.
C14_Witness ==
    /\ Len(calls) = 1
    /\ count.refreshes = 2
    /\ state.filters.ga4Property # "" /\ state.filters.gscSite = ""
    /\ state.error = MissingSelectionError
    /\ ~state.isLoading
    /\ jobs = {}

(* ------------------------------------------------ properties: utilities *)
\* The day a YYYY-MM-DD names, and the days from one to another, both counted.
DayOfIso(chars) ==
    MakeDay(ParseDigits(SubSeq(chars, 1, 4), 0), ParseDigits(SubSeq(chars, 6, 7), 0) - 1,
            ParseDigits(SubSeq(chars, 9, 10), 0))
DaysIn(from, to) == DayOfIso(to) - DayOfIso(from) + 1
\* The calendar day on which getDateRange is called, where it is called.
LocalToday == (pureCall.utcDay * 24 + pureCall.utcHour + pureCall.tz) \div 24

\* C15: for last-28d and last-30d the window returned ends on the day
\* before today and starts 27, respectively 29, days before its end.
C15_WindowEndsYesterday ==
    Applied("getDateRange") /\ pureCall.dateRange \in {"last-28d", "last-30d"} =>
        /\ pureResult.value.endDate = IsoDate(LocalToday - 1)
        /\ DayOfIso(pureResult.value.startDate) =
               DayOfIso(pureResult.value.endDate)
                   - (IF pureCall.dateRange = "last-28d" THEN 27 ELSE 29)

\* C16: for each of the four selectors the previous window holds as many
\* days as the current one.
C16_PreviousWindowSameLength ==
    Applied("getDateRange") /\ pureCall.dateRange # "custom" =>
        DaysIn(pureResult.value.previousStartDate, pureResult.value.previousEndDate)
            = DaysIn(pureResult.value.startDate, pureResult.value.endDate)

TenthsOf(body) ==
    LET parts == Split(body, ".")
    IN  IF /\ Len(parts) = 2
           /\ parts[1] # <<>> /\ AllDigits(parts[1])
           /\ Len(parts[2]) = 1 /\ AllDigits(parts[2])
        THEN ParseDigits(parts[1], 0) * 10 + ParseDigits(parts[2], 0)
        ELSE -1
Abs(n) == IF n < 0 THEN -n ELSE n
\* text is sign, then 100 * num / den rounded to one decimal, then %.
IsPercentOf(text, sign, num, den) ==
    /\ StartsWith(text, sign) /\ EndsWith(text, <<"%">>)
    /\ LET tenths == TenthsOf(SubSeq(text, Len(sign) + 1, Len(text) - 1))
       IN  tenths >= 0 /\ Abs(2000 * Abs(num) - 2 * tenths * Abs(den)) <= Abs(den)

\* C18: calculateGrowth gives "0%" for 0 against 0, "+100%" for a positive
\* count against 0, the dash for a negative one against 0, and otherwise
\* the change over the previous count as a percentage with one decimal,
\* prefixed with + when it is not negative.
C18_GrowthFormat ==
    Applied("calculateGrowth") =>
        LET c == pureCall.current
            p == pureCall.previous
            r == pureResult.value
        IN  /\ p = 0 /\ c = 0 => r = <<"0", "%">>
            /\ p = 0 /\ c > 0 => r = <<"+", "1", "0", "0", "%">>
            /\ p = 0 /\ c < 0 => r = <<EmDash>>
            /\ p # 0 /\ (c - p) * p >= 0 => IsPercentOf(r, <<"+">>, c - p, p)
            /\ p # 0 /\ (c - p) * p < 0 => IsPercentOf(r, <<"-">>, c - p, p)
            /\ c = 150 /\ p = 100 => r = <<"+", "5", "0", ".", "0", "%">>
            /\ c = 50 /\ p = 100 => r = <<"-", "5", "0", ".", "0", "%">>
C18_Witness ==
    /\ Applied("calculateGrowth")
    /\ pureCall.current = 150 /\ pureCall.previous = 100
    /\ pureResult.value = <<"+", "5", "0", ".", "0", "%">>

NeutralChanges ==
    {<<"0", "%">>, <<"+", "0", ".", "0", "%">>, <<"-", "0", ".", "0", "%">>, <<EmDash>>}

\* C19: getGrowthType is neutral exactly for "0%", "+0.0%", "-0.0%" and the
\* dash, decrease for every other string that starts with "-", increase
\* for the rest; and the growth of two counts that are not negative is a
\* decrease only if the current one is the smaller.
C19_GrowthType ==
    /\ Applied("getGrowthType") \/ Applied("changeType") =>
        pureResult.value =
            IF pureCall.change \in NeutralChanges THEN "neutral"
            ELSE IF pureCall.change # <<>> /\ pureCall.change[1] = "-" THEN "decrease"
            ELSE "increase"
    /\ /\ Applied("changeType")
       /\ pureCall.current >= 0 /\ pureCall.previous >= 0
       /\ pureResult.value = "decrease"
       => pureCall.current < pureCall.previous
C19_Witness ==
    /\ Applied("changeType")
    /\ pureCall.current >= 0 /\ pureCall.previous > pureCall.current
    /\ pureResult.value = "decrease"

\* C20: for /blog/<marker>/<slug>/... with an author marker and a slug that
\* formats to a name, extractAuthorFromUrl returns the formatted slug.
C20_BlogMarkerSlug ==
    \A marker \in NextSegmentMarkers, slug \in Slugs :
        /\ Applied("extractAuthorFromUrl")
        /\ pureCall.url = Path(<<<<"b", "l", "o", "g">>, marker, slug, <<"p", "o", "s", "t">>>>)
        /\ formatAuthorName(slug) # UnknownAuthor
        => pureResult.value = formatAuthorName(slug)

\* The segments of the path of a URL or of a bare path.
IsFullUrl(url) == StartsWith(url, HttpPrefix) \/ StartsWith(url, HttpsPrefix)
SegmentsOf(url) == NonEmpty(Split(IF IsFullUrl(url) THEN UrlParse(url).pathname ELSE url, "/"))
\* Four digits, two digits, YYYY-MM or YYYY-MM-DD.
DateLike(segment) ==
    LET digits(from, to) == Len(segment) >= to /\ AllDigits(SubSeq(segment, from, to))
    IN  \/ Len(segment) = 4 /\ digits(1, 4)
        \/ Len(segment) = 2 /\ digits(1, 2)
        \/ Len(segment) = 7 /\ digits(1, 4) /\ segment[5] = "-" /\ digits(6, 7)
        \/ /\ Len(segment) = 10 /\ digits(1, 4) /\ segment[5] = "-" /\ digits(6, 7)
           /\ segment[8] = "-" /\ digits(9, 10)
Blog == <<"b", "l", "o", "g">>
\* Segment k is a marker of any kind.
IsMarker(segments, k) ==
    ToLowerCase(segments[k]) \in NextSegmentMarkers \cup {Blog, <<"p", "o", "s", "t", "s">>}

C22_RejectedSlugFallsThrough ==
    Applied("extractAuthorFromUrl") /\ IsFullUrl(pureCall.url) =>
        LET segments == SegmentsOf(pureCall.url)
            query == QueryAuthor(pureCall.url)
        IN  (/\ Len(segments) = 2
             /\ ToLowerCase(segments[1]) \in NextSegmentMarkers
             /\ formatAuthorName(segments[2]) = UnknownAuthor
             /\ ~query.thrown /\ Truthy(query.value)
             /\ formatAuthorName(query.value.chars) # UnknownAuthor)
            => pureResult.value = formatAuthorName(query.value.chars)

\* C23: whatever the string, extractAuthorFromUrl returns "Unknown Author"
\* or a name of two characters or more that is not made of digits alone.
C23_Total ==
    Applied("extractAuthorFromUrl") =>
        \/ pureResult.value = UnknownAuthor
        \/ Len(pureResult.value) >= 2 /\ ~AllDigits(pureResult.value)
\* new URL() throws on a URL without a host; the sentinel comes back.
C23_Witness ==
    /\ Applied("extractAuthorFromUrl")
    /\ pureCall.url = HttpsPrefix \o <<"?", "a", "u", "t", "h", "o", "r", "=", "j", "a", "n", "e", "-", "d", "o", "e">>
    /\ pureResult.value = UnknownAuthor

\* The author and the pageviews of a row, and the sums and pages of an
\* author over the rows.
AuthorOfRow(row) == extractAuthorFromUrl(row.dimensionValues.items[1].value.chars)
PathOfRow(row) == row.dimensionValues.items[1].value.chars
ViewsOfRow(row) == parseInt(row.metricValues.items[1].value.chars).n
RECURSIVE SumViews(_, _)
SumViews(rows, author) ==
    IF rows = <<>> THEN 0
    ELSE (IF AuthorOfRow(Head(rows)) = author THEN ViewsOfRow(Head(rows)) ELSE 0)
         + SumViews(Tail(rows), author)
PathsOfAuthor(rows, author) ==
    {PathOfRow(rows[k]) : k \in {j \in 1..Len(rows) : AuthorOfRow(rows[j]) = author}}
KnownAuthors(rows) ==
    {AuthorOfRow(rows[k]) : k \in 1..Len(rows)} \ {UnknownAuthor}

\* C24: no aggregate is of "Unknown Author"; each aggregate counts the
\* distinct page paths of its author (one at least), sums the pageviews of
\* the author's rows, and has their quotient as the average.
C24_AuthorGrouping ==
    Applied("fetchAuthorData") =>
        /\ \A k \in 1..Len(pureResult.value) :
            LET entry == pureResult.value[k]
                paths == PathsOfAuthor(pureCall.rows, entry.author.chars)
            IN  /\ entry.author.chars \in KnownAuthors(pureCall.rows)
                /\ entry.articles = Num(Cardinality(paths))
                /\ Cardinality(paths) >= 1
                /\ entry.totalPageviews = Num(SumViews(pureCall.rows, entry.author.chars))
                /\ entry.avgPageviews = Quotient(entry.totalPageviews, entry.articles)
        /\ \A k, j \in 1..Len(pureResult.value) :
            pureResult.value[k].author = pureResult.value[j].author => k = j
\* Rows of no author, a page that comes twice and an author of two pages.
C24_Witness ==
    /\ Applied("fetchAuthorData")
    /\ \E k \in 1..Len(pureCall.rows) : AuthorOfRow(pureCall.rows[k]) = UnknownAuthor
    /\ \E k, j \in 1..Len(pureCall.rows) :
            k # j /\ PathOfRow(pureCall.rows[k]) = PathOfRow(pureCall.rows[j])
    /\ \E k \in 1..Len(pureResult.value) : pureResult.value[k].articles = Num(2)

\* C25: at most topN authors are listed, by totalPageviews descending, and
\* no author left out has more pageviews than an author listed.
C25_AuthorTopN ==
    Applied("fetchAuthorData") =>
        LET listed == {pureResult.value[k].author.chars : k \in 1..Len(pureResult.value)}
        IN  /\ Len(pureResult.value) <= pureCall.topN
            /\ \A k, j \in 1..Len(pureResult.value) :
                k < j => pureResult.value[k].totalPageviews.n
                            >= pureResult.value[j].totalPageviews.n
            /\ \A author \in KnownAuthors(pureCall.rows) \ listed :
                \A k \in 1..Len(pureResult.value) :
                    SumViews(pureCall.rows, author) <= pureResult.value[k].totalPageviews.n
            /\ Cardinality(KnownAuthors(pureCall.rows)) <= pureCall.topN
                => listed = KnownAuthors(pureCall.rows)
\* More authors than topN, the rows not in the order of the answer.
C25_Witness ==
    /\ Applied("fetchAuthorData")
    /\ Cardinality(KnownAuthors(pureCall.rows)) > pureCall.topN
    /\ Len(pureResult.value) = pureCall.topN
    /\ pureResult.value[1].author.chars # AuthorOfRow(pureCall.rows[1])

(* --------------------------------------------- properties: fetchUserInfo *)
\* A network call that did not answer 2xx.
Failed(sent) == sent.error # null \/ ~Ok(sent.response)

C27_AllCallsThroughRetryLayer ==
    [][(Len(netLog') > Len(netLog)) => (pc = "attempt")]_vars

(* ------------------------------------------- properties: highest day *)
\* The diagnostic names point k of the series.
NamesPoint(value, series, k) ==
    value = series[k].date.chars \o <<" ", "(">>
                \o GroupDigits(NumberChars(series[k].sessions.n)) \o <<")">>
\* Point k has the most sessions of the series, and is the earliest such.
EarliestHighest(series, k) ==
    /\ \A j \in 1..Len(series) : series[j].sessions.n <= series[k].sessions.n
    /\ \A j \in 1..(k - 1) : series[j].sessions.n < series[k].sessions.n

\* C28 as stated: the diagnostic names the earliest point of the most
\* sessions, and is the dash when the series is empty.
C28_HighestDayOfAnySeries ==
    Applied("highestSessionsDay") =>
        IF pureCall.ga4Trends = <<>> THEN pureResult.value = <<EmDash>>
        ELSE \E k \in 1..Len(pureCall.ga4Trends) :
                /\ NamesPoint(pureResult.value, pureCall.ga4Trends, k)
                /\ EarliestHighest(pureCall.ga4Trends, k)

\* C28, amended: when a point of the series has a session the diagnostic
\* names the earliest point of the most sessions; it is the dash when the
\* series is empty or no point has a session.
C28_HighestDay ==
    Applied("highestSessionsDay") =>
        IF \A k \in 1..Len(pureCall.ga4Trends) : pureCall.ga4Trends[k].sessions.n = 0
        THEN pureResult.value = <<EmDash>>
        ELSE \E k \in 1..Len(pureCall.ga4Trends) :
                /\ NamesPoint(pureResult.value, pureCall.ga4Trends, k)
                /\ EarliestHighest(pureCall.ga4Trends, k)
\* Two days of 1,200 sessions after a day of seven: the first of the two.
C28_Witness ==
    /\ Applied("highestSessionsDay")
    /\ Len(pureCall.ga4Trends) = 3
    /\ pureCall.ga4Trends[1].sessions = Num(7)
    /\ pureCall.ga4Trends[2].sessions = Num(1200)
    /\ pureCall.ga4Trends[3].sessions = Num(1200)
    /\ NamesPoint(pureResult.value, pureCall.ga4Trends, 2)

(* --------------------------------------------- properties: sign-out *)
\* C29: what fetchGscData reads from the cache was fetched under the
\* sign-in that reads it, never under one that was signed out.
C29_CacheSessionIsolation ==
    \A k \in 1..Len(calls) :
        CacheHit(calls[k].cached) =>
            \A n \in 1..Len(calls[k].cached.items) :
                calls[k].cached.items[n].session = calls[k].session

\* C30: while nobody is signed in, the report, the insights and the error
\* are empty.
C30_NoStaleReport ==
    state.accessToken = null =>
        state.data = null /\ state.hiddenInsights = "" /\ state.error = null

(* ------------------------------------------- properties: report builds *)
\* The fetchDataAndInsights calls that have not returned.
Builds == {job \in jobs : job.kind = "fetchDataAndInsights"}

\* C31: at most one fetchDataAndInsights call has not returned, and
\* isLoading is true as long as one has not.
C31_OneBuildInFlight ==
    /\ Cardinality(Builds) <= 1
    /\ Builds # {} => state.isLoading
\* A build of the first sign-in still waits after the second sign-in has
\* loaded its lists; Refresh stays disabled.
C31_Witness ==
    /\ count.signIns = 2
    /\ state.accessToken # null /\ ~state.isPropertiesLoading
    /\ ~MissingSelection(state.filters)
    /\ \E job \in Builds : job.session = 1
    /\ state.isLoading

\* A build returns in this step.
Returning ==
    {job \in Builds : ~\E next \in jobs' : next.kind = job.kind /\ next.id = job.id}
BuildReturns == Returning # {}
\* No sign-out has run since the build that returns was started.
SameSession ==
    \A job \in Returning : state.accessToken # null /\ job.session = count.signIns
\* Refresh is clicked with a selection missing: the build returns at once.
BuildRefused == count'.refreshes = count.refreshes + 1 /\ MissingSelection(state.filters)
ExactlyOne(d, e) == (d # null) # (e # null)

C34_NoWaitAfterFinalAttempt ==
    (req.fn # "fetchUserInfo" /\ Len(netLog) = maxRetries) => pc # "sleep"

(* ------------------------------------- properties: the listing caches *)
ListingFetchers == {"fetchUserInfo", "fetchGa4Properties", "fetchGscSites"}

\* C35: what fetchUserInfo, fetchGa4Properties or fetchGscSites returns
\* from the cache was fetched with the token of the call.
C35_ListingCachePerToken ==
    (req.fn \in ListingFetchers /\ CacheHit(cached)) =>
        lastSet[req.cacheKey].by = TokenOf(req)

(* ------------------------------------- properties: report and error *)
\* C33: the report and the error are never both set.
C33_DataErrorExclusive == ~(state.data # null /\ state.error # null)
\* A refresh refused for a missing selection, then a build that brought
\* the report: the error of the first is gone.
C33_Witness ==
    /\ count.refreshes = 2 /\ Len(calls) = 1
    /\ state.data # null /\ state.error = null

====
